---- MODULE Spec2Model ----
(***************************************************************************)
(* proto-file-parser: Proto::parse as a pipeline over the input text       *)
(*   text -> tokens -> parse tree (pest Pairs) -> AST (Proto) -> JSON.     *)
(* The grammar file proto.pest is not part of the sources at hand; the     *)
(* lexical rules and the grammar are modelled from the specification       *)
(* (sections 4.1 and 4.2).  The AST constructor and the serializer are     *)
(* modelled from src/src/lib.rs.                                           *)
(* Texts are TLA+ strings; a character is a string of length 1.            *)
(***************************************************************************)
EXTENDS Integers, Sequences, FiniteSets, TLC

VARIABLES
  src,      \* what the author of the text declared (see "Source texts" below)
  layout,   \* how the tokens of the text are separated
  damage,   \* the one defect the text was written with, if any
  input,    \* the text handed to Proto::parse
  pc,       \* "called" | "returned"
  proto,    \* the Proto that parse serializes (None before, and on an early return)
  result,   \* what parse returns
  calls,    \* the calls of parse that have returned: the text given, the result
  args,     \* the arguments of the command line, after the program's name
  files,    \* the files: for each path, Some(its text), or None when it cannot be read
  preserve_order,  \* whether serde_json is built with its preserve_order feature
  stdout,   \* what was printed to standard output, one println! each
  stderr,   \* what was printed to standard error, one eprintln! each
  exit      \* the exit status of the process, None while it runs

vars == <<src, layout, damage, input, pc, proto, result, calls,
          args, files, preserve_order, stdout, stderr, exit>>

(* Option<T> *)
NoneValue == [some |-> FALSE]

Some(v) == [some |-> TRUE, val |-> v]

(***************************************************************************)
(* Characters                                                              *)
(***************************************************************************)
Lower == {"a","b","c","d","e","f","g","h","i","j","k","l","m",
          "n","o","p","q","r","s","t","u","v","w","x","y","z"}
Upper == {"A","B","C","D","E","F","G","H","I","J","K","L","M",
          "N","O","P","Q","R","S","T","U","V","W","X","Y","Z"}
Digit == {"0","1","2","3","4","5","6","7","8","9"}
Alpha == Lower \cup Upper
IdentChar == Alpha \cup Digit \cup {"_"}
WhitespaceChar == {" ", "\t", "\r", "\n"}
PunctChar == {";", "{", "}", "(", ")", "="}

At(s, i) == IF i >= 1 /\ i <= Len(s) THEN SubSeq(s, i, i) ELSE ""

(* first index j >= i with s[j] not in class (Len(s)+1 when none) *)
SkipClass(s, i, class) ==
  CHOOSE j \in i..(Len(s) + 1) :
    /\ j = Len(s) + 1 \/ At(s, j) \notin class
    /\ \A k \in i..(j - 1) : At(s, k) \in class

(* first index j >= i with s[j] = c (Len(s)+1 when none) *)
FindChar(s, i, c) == SkipClass(s, i, {At(s, k) : k \in i..Len(s)} \ {c})

(* first index j >= i with s[j..j+1] = "*/" (Len(s)+1 when none) *)
FindBlockEnd(s, i) ==
  CHOOSE j \in i..(Len(s) + 1) :
    /\ j = Len(s) + 1 \/ (At(s, j) = "*" /\ At(s, j + 1) = "/")
    /\ \A k \in i..(j - 1) : ~(At(s, k) = "*" /\ At(s, k + 1) = "/")

(***************************************************************************)
(* Lexical rule set (spec 4.1)                                             *)
(***************************************************************************)
(* end of ident ("." ident)* starting at i, where s[i] is a letter *)
RECURSIVE WordEnd(_, _)
WordEnd(s, i) ==
  LET j == SkipClass(s, i + 1, IdentChar)
  IN IF At(s, j) = "." /\ At(s, j + 1) \in Alpha THEN WordEnd(s, j + 1) ELSE j - 1

Tok(k, a, b) == [kind |-> k, s |-> a, e |-> b]

(* first position from i on that is neither WHITESPACE nor inside a COMMENT; *)
(* 0 when a block comment is left open                                      *)
RECURSIVE SkipBlanks(_, _)
SkipBlanks(s, i) ==
  CASE At(s, i) \in WhitespaceChar -> SkipBlanks(s, SkipClass(s, i, WhitespaceChar))
    [] At(s, i) = "/" /\ At(s, i + 1) = "/" -> SkipBlanks(s, FindChar(s, i + 2, "\n") + 1)
    [] At(s, i) = "/" /\ At(s, i + 1) = "*" ->
         IF FindBlockEnd(s, i + 2) > Len(s) THEN 0
         ELSE SkipBlanks(s, FindBlockEnd(s, i + 2) + 2)
    [] OTHER -> i

(* the token that starts at i, a position SkipBlanks stops at *)
TokenAt(s, i) ==
  CASE At(s, i) \in Alpha -> Tok("word", i, WordEnd(s, i))
    [] At(s, i) \in Digit -> Tok("number", i, SkipClass(s, i, Digit) - 1)
    [] At(s, i) = "\"" /\ FindChar(s, i + 1, "\"") <= Len(s) ->
         Tok("string_lit", i, FindChar(s, i + 1, "\""))
    [] At(s, i) \in PunctChar -> Tok(At(s, i), i, i)
    [] OTHER -> Tok("none", i, i)

(* At most n tokens of s from position i on, WHITESPACE and COMMENT         *)
(* skipped: the tokens, the position after them, whether the end of s was  *)
(* reached (done) and whether a lexical rule matched everywhere (ok).  The *)
(* text is cut in two halves so that long texts need no deep recursion.    *)
RECURSIVE LexUpTo(_, _, _)
LexUpTo(s, i, n) ==
  IF n <= 1
  THEN LET j == SkipBlanks(s, i)
           tk == TokenAt(s, j)
       IN CASE j = 0 -> [ok |-> FALSE, done |-> TRUE, toks |-> <<>>, next |-> i]
            [] j > Len(s) -> [ok |-> TRUE, done |-> TRUE, toks |-> <<>>, next |-> j]
            [] tk.kind = "none" -> [ok |-> FALSE, done |-> TRUE, toks |-> <<>>, next |-> j]
            [] OTHER -> [ok |-> TRUE, done |-> FALSE, toks |-> <<tk>>, next |-> tk.e + 1]
  ELSE LET a == LexUpTo(s, i, n \div 2)
           b == LexUpTo(s, a.next, n - (n \div 2))
       IN IF a.done THEN a
          ELSE [ok |-> b.ok, done |-> b.done, toks |-> a.toks \o b.toks, next |-> b.next]

(* a text of n characters has at most n tokens, and then its end *)
Lex(s) == LexUpTo(s, 1, Len(s) + 1)

(***************************************************************************)
(* Grammar / parse-tree builder (spec 4.2).  A node of the parse tree is a *)
(* pest Pair: its rule tag, the text it spans (as_str) and its inner pairs. *)
(* Literals and keywords produce no pair of their own.                     *)
(***************************************************************************)
Text(s, t) == SubSeq(s, t.s, t.e)

Node(rule, s, a, b, inner) == [rule |-> rule, str |-> SubSeq(s, a, b), inner |-> inner]

Leaf(rule, s, t) == Node(rule, s, t.s, t.e, <<>>)

Fail == [ok |-> FALSE]

Matched(node, next) == [ok |-> TRUE, node |-> node, next |-> next]

IsKind(toks, i, k) == i <= Len(toks) /\ toks[i].kind = k

IsKw(s, toks, i, kw) == IsKind(toks, i, "word") /\ Text(s, toks[i]) = kw

IsFullIdent(toks, i) == IsKind(toks, i, "word")

IsIdent(s, toks, i) ==
  /\ IsKind(toks, i, "word")
  /\ FindChar(Text(s, toks[i]), 1, ".") > Len(Text(s, toks[i]))

FieldRules == {"repeated", "optional", "required"}

(* syntax = "syntax" "=" string_lit ";" *)
P_syntax(s, toks, i) ==
  IF /\ IsKw(s, toks, i, "syntax") /\ IsKind(toks, i + 1, "=")
     /\ IsKind(toks, i + 2, "string_lit") /\ IsKind(toks, i + 3, ";")
  THEN Matched(Node("syntax", s, toks[i].s, toks[i + 3].e,
                    <<Leaf("string_lit", s, toks[i + 2])>>), i + 4)
  ELSE Fail

(* package = "package" full_ident ";" *)
P_package(s, toks, i) ==
  IF /\ IsKw(s, toks, i, "package") /\ IsFullIdent(toks, i + 1)
     /\ IsKind(toks, i + 2, ";")
  THEN Matched(Node("package", s, toks[i].s, toks[i + 2].e,
                    <<Leaf("full_ident", s, toks[i + 1])>>), i + 3)
  ELSE Fail

(* import = "import" string_lit ";" *)
P_import(s, toks, i) ==
  IF /\ IsKw(s, toks, i, "import") /\ IsKind(toks, i + 1, "string_lit")
     /\ IsKind(toks, i + 2, ";")
  THEN Matched(Node("import", s, toks[i].s, toks[i + 2].e,
                    <<Leaf("string_lit", s, toks[i + 1])>>), i + 3)
  ELSE Fail

(* field = field_rule? type_name ident "=" number ";"                      *)
(* The optional field_rule is greedy: a leading modifier keyword is always *)
(* taken as the modifier.                                                  *)
P_field(s, toks, i) ==
  LET hasRule == IsKind(toks, i, "word") /\ Text(s, toks[i]) \in FieldRules
      j == IF hasRule THEN i + 1 ELSE i
  IN IF /\ IsFullIdent(toks, j) /\ IsIdent(s, toks, j + 1)
        /\ IsKind(toks, j + 2, "=") /\ IsKind(toks, j + 3, "number")
        /\ IsKind(toks, j + 4, ";")
     THEN Matched(Node("field", s, toks[i].s, toks[j + 4].e,
                       (IF hasRule THEN <<Leaf("field_rule", s, toks[i])>> ELSE <<>>)
                       \o <<Leaf("type_name", s, toks[j]),
                            Leaf("ident", s, toks[j + 1]),
                            Leaf("number", s, toks[j + 3])>>), j + 5)
     ELSE Fail

(* enum_value = ident "=" number ";" *)
P_enum_value(s, toks, i) ==
  IF /\ IsIdent(s, toks, i) /\ IsKind(toks, i + 1, "=")
     /\ IsKind(toks, i + 2, "number") /\ IsKind(toks, i + 3, ";")
  THEN Matched(Node("enum_value", s, toks[i].s, toks[i + 3].e,
                    <<Leaf("ident", s, toks[i]), Leaf("number", s, toks[i + 2])>>), i + 4)
  ELSE Fail

(* enum_value* : the nodes matched from i on and the position after them *)
RECURSIVE P_enum_values(_, _, _, _)
P_enum_values(s, toks, i, acc) ==
  LET r == P_enum_value(s, toks, i)
  IN IF r.ok THEN P_enum_values(s, toks, r.next, Append(acc, r.node))
     ELSE [nodes |-> acc, next |-> i]

(* ordered choice: the first alternative that matches *)
FirstOf(a, b) == IF a.ok THEN a ELSE b

(* keyword ident "{" at i: the opening of an enum, message or service *)
P_opens(s, toks, i, kw) ==
  IsKw(s, toks, i, kw) /\ IsIdent(s, toks, i + 1) /\ IsKind(toks, i + 2, "{")

(* the "}" after the matched body of the definition opened at i, and the    *)
(* definition's node: its ident and the nodes of the body                   *)
P_closes(rule, s, toks, i, body) ==
  IF IsKind(toks, body.next, "}")
  THEN Matched(Node(rule, s, toks[i].s, toks[body.next].e,
                    <<Leaf("ident", s, toks[i + 1])>> \o body.nodes),
               body.next + 1)
  ELSE Fail

(* enum_def = "enum" ident "{" enum_value* "}" *)
P_enum_def(s, toks, i) ==
  IF P_opens(s, toks, i, "enum")
  THEN P_closes("enum_def", s, toks, i, P_enum_values(s, toks, i + 3, <<>>))
  ELSE Fail

(* message_type = "stream"? ident *)
P_message_type(s, toks, i) ==
  LET j == IF IsKw(s, toks, i, "stream") THEN i + 1 ELSE i
  IN IF IsIdent(s, toks, j)
     THEN Matched(Node("message_type", s, toks[i].s, toks[j].e,
                       <<Leaf("ident", s, toks[j])>>), j + 1)
     ELSE Fail

(* rpc_def = "rpc" ident "(" message_type ")" "returns" "(" message_type ")" *)
(*           (";" | "{" "}")                                                 *)
(* P_rpc_close: from the ")" after the output type b; P_rpc_returns: from   *)
(* the ")" after the input type a.                                          *)
P_rpc_close(s, toks, i, a, b) ==
  LET e == IF ~b.ok \/ ~IsKind(toks, b.next, ")") THEN 0
           ELSE IF IsKind(toks, b.next + 1, ";") THEN b.next + 1
           ELSE IF IsKind(toks, b.next + 1, "{") /\ IsKind(toks, b.next + 2, "}")
                THEN b.next + 2
           ELSE 0
  IN IF e > 0
     THEN Matched(Node("rpc_def", s, toks[i].s, toks[e].e,
                       <<Leaf("ident", s, toks[i + 1]), a.node, b.node>>),
                  e + 1)
     ELSE Fail

P_rpc_returns(s, toks, i, a) ==
  IF a.ok /\ IsKind(toks, a.next, ")") /\ IsKw(s, toks, a.next + 1, "returns")
     /\ IsKind(toks, a.next + 2, "(")
  THEN P_rpc_close(s, toks, i, a, P_message_type(s, toks, a.next + 3))
  ELSE Fail

P_rpc_def(s, toks, i) ==
  IF IsKw(s, toks, i, "rpc") /\ IsIdent(s, toks, i + 1) /\ IsKind(toks, i + 2, "(")
  THEN P_rpc_returns(s, toks, i, P_message_type(s, toks, i + 3))
  ELSE Fail

RECURSIVE P_rpc_defs(_, _, _, _)
P_rpc_defs(s, toks, i, acc) ==
  LET r == P_rpc_def(s, toks, i)
  IN IF r.ok THEN P_rpc_defs(s, toks, r.next, Append(acc, r.node))
     ELSE [nodes |-> acc, next |-> i]

(* service_def = "service" ident "{" rpc_def* "}" *)
P_service_def(s, toks, i) ==
  IF P_opens(s, toks, i, "service")
  THEN P_closes("service_def", s, toks, i, P_rpc_defs(s, toks, i + 3, <<>>))
  ELSE Fail

(* an empty statement: a ";" on its own *)
P_empty_statement(s, toks, i) ==
  IF IsKind(toks, i, ";") THEN Matched(Leaf("empty_statement", s, toks[i]), i + 1)
  ELSE Fail

(* message_def = "message" ident "{" message_element* "}"                  *)
(* message_element = field | message_def | enum_def | ";"                  *)
RECURSIVE P_message_def(_, _, _)
RECURSIVE P_message_elements(_, _, _, _)
P_message_elements(s, toks, i, acc) ==
  LET r == FirstOf(P_field(s, toks, i),
           FirstOf(P_message_def(s, toks, i),
           FirstOf(P_enum_def(s, toks, i), P_empty_statement(s, toks, i))))
  IN IF r.ok THEN P_message_elements(s, toks, r.next, Append(acc, r.node))
     ELSE [nodes |-> acc, next |-> i]

P_message_def(s, toks, i) ==
  IF P_opens(s, toks, i, "message")
  THEN P_closes("message_def", s, toks, i, P_message_elements(s, toks, i + 3, <<>>))
  ELSE Fail

(* an optional statement r after what prev holds *)
P_optional(r, prev) ==
  IF r.ok THEN [nodes |-> Append(prev.nodes, r.node), next |-> r.next] ELSE prev

(* import* *)
RECURSIVE P_imports(_, _, _, _)
P_imports(s, toks, i, acc) ==
  LET r == P_import(s, toks, i)
  IN IF r.ok THEN P_imports(s, toks, r.next, Append(acc, r.node))
     ELSE [nodes |-> acc, next |-> i]

(* (message_def | enum_def | service_def)* *)
RECURSIVE P_definitions(_, _, _, _)
P_definitions(s, toks, i, acc) ==
  LET r == FirstOf(P_message_def(s, toks, i),
           FirstOf(P_enum_def(s, toks, i), P_service_def(s, toks, i)))
  IN IF r.ok THEN P_definitions(s, toks, r.next, Append(acc, r.node))
     ELSE [nodes |-> acc, next |-> i]

(* proto_file = syntax? package? import* (message_def|enum_def|service_def)* EOI *)
(* Matched up to the end of the tokens, it is the one pair of the parse.     *)
(* variant: the end of input is not required after the definitions *)
P_proto_file_without_EOI(s, toks) ==
  LET sy == P_optional(P_syntax(s, toks, 1), [nodes |-> <<>>, next |-> 1])
      pk == P_optional(P_package(s, toks, sy.next), sy)
      im == P_imports(s, toks, pk.next, pk.nodes)
      df == P_definitions(s, toks, im.next, im.nodes)
  IN [ok |-> TRUE,
      pairs |-> <<Node("proto_file", s, 1, Len(s),
                       Append(df.nodes, Node("EOI", s, 1, 0, <<>>)))>>]

P_proto_file(s, toks) ==
  LET sy == P_optional(P_syntax(s, toks, 1), [nodes |-> <<>>, next |-> 1])
      pk == P_optional(P_package(s, toks, sy.next), sy)
      im == P_imports(s, toks, pk.next, pk.nodes)
      df == P_definitions(s, toks, im.next, im.nodes)
  IN IF df.next = Len(toks) + 1
     THEN [ok |-> TRUE,
           pairs |-> <<Node("proto_file", s, 1, Len(s),
                            Append(df.nodes, Node("EOI", s, 1, 0, <<>>)))>>]
     ELSE Fail

(* ProtoParser::parse(Rule::proto_file, input): the pairs, or the grammar's *)
(* single error.                                                           *)
ProtoParser_parse(s) ==
  LET lx == Lex(s)
  IN IF lx.ok THEN P_proto_file(s, lx.toks) ELSE Fail


(***************************************************************************)
(* AST constructor (src/src/lib.rs).  Every parse_* function returns Ok on *)
(* each of its paths, so its result is modelled as the value it builds.    *)
(***************************************************************************)
I32Max == 2147483647

DigitValue(c) == FindChar("0123456789", 1, c) - 1

(* str::trim_matches(c): every leading and every trailing c is removed *)
RECURSIVE trim_start_matches(_, _)
trim_start_matches(str, c) ==
  IF Len(str) > 0 /\ At(str, 1) = c THEN trim_start_matches(Tail(str), c) ELSE str

RECURSIVE trim_end_matches(_, _)
trim_end_matches(str, c) ==
  IF Len(str) > 0 /\ At(str, Len(str)) = c
  THEN trim_end_matches(SubSeq(str, 1, Len(str) - 1), c) ELSE str

(* variant: only the leading c are removed *)
trim_matches_leading(str, c) == trim_start_matches(str, c)

trim_matches(str, c) == trim_end_matches(trim_start_matches(str, c), c)

(* variant: the overflow test of checked_mul is off by one, so a literal of *)
(* ten digits never converts                                               *)
RECURSIVE AccumulateDigits_early_overflow(_, _, _, _)
AccumulateDigits_early_overflow(str, i, acc, neg) ==
  IF i > Len(str) THEN [ok |-> TRUE, val |-> acc]
  ELSE IF At(str, i) \notin Digit THEN [ok |-> FALSE]
  ELSE IF acc >= I32Max \div 10 THEN [ok |-> FALSE]
  ELSE AccumulateDigits_early_overflow(str, i + 1, acc * 10 + DigitValue(At(str, i)), neg)

(* <i32 as FromStr>::from_str on the digits from i on: checked_mul(10) then *)
(* checked_add (checked_sub for a negative literal) per digit; any other    *)
(* character or an overflow is an Err.                                      *)
RECURSIVE AccumulateDigits(_, _, _, _)
AccumulateDigits(str, i, acc, neg) ==
  IF i > Len(str) THEN [ok |-> TRUE, val |-> acc]
  ELSE IF At(str, i) \notin Digit THEN [ok |-> FALSE]
  ELSE LET d == DigitValue(At(str, i)) IN
    IF ~neg
    THEN IF acc > I32Max \div 10 THEN [ok |-> FALSE]
         ELSE IF acc * 10 > I32Max - d THEN [ok |-> FALSE]
         ELSE AccumulateDigits(str, i + 1, acc * 10 + d, neg)
    ELSE IF acc < -(I32Max \div 10) THEN [ok |-> FALSE]
         ELSE IF acc * 10 < (-I32Max - 1) + d THEN [ok |-> FALSE]
         ELSE AccumulateDigits(str, i + 1, acc * 10 - d, neg)

parse_i32(str) ==
  IF Len(str) = 0 THEN [ok |-> FALSE]
  ELSE IF At(str, 1) \in {"+", "-"}
       THEN IF Len(str) = 1 THEN [ok |-> FALSE]
            ELSE AccumulateDigits(str, 2, 0, At(str, 1) = "-")
  ELSE AccumulateDigits(str, 1, 0, FALSE)

(* variant: a failed conversion falls back to the largest i32 *)
unwrap_or_saturating(r, default) == IF r.ok THEN r.val ELSE I32Max

unwrap_or(r, default) == IF r.ok THEN r.val ELSE default

(* the pairs of seq with the given rule tag, in order *)
OfRule(seq, rule) == SelectSeq(seq, LAMBDA p : p.rule = rule)

(* pairs.next() taken once: what is left of the iterator *)
Rest(seq) == IF Len(seq) = 0 THEN <<>> ELSE Tail(seq)

(* the name a parse_* function reads from the first inner pair *)
NameOf(inner) ==
  IF Len(inner) >= 1 /\ inner[1].rule = "ident" THEN inner[1].str ELSE ""

(* variant: any modifier sets repeated *)
parse_field_any_rule(pair) ==
  LET inner == pair.inner
      hasRule == Len(inner) >= 1 /\ inner[1].rule = "field_rule"
      rest == IF hasRule THEN Tail(inner) ELSE inner
  IN [name |-> IF Len(rest) >= 2 THEN rest[2].str ELSE "",
      type_name |-> IF Len(rest) >= 1 THEN rest[1].str ELSE "",
      tag |-> IF Len(rest) >= 3 THEN unwrap_or(parse_i32(rest[3].str), 0) ELSE 0,
      repeated |-> hasRule]

(* variant: the modifier is looked for by the text of the tokens *)
parse_field_by_text(pair) ==
  LET inner == pair.inner
      hasRule == Len(inner) >= 1 /\ inner[1].rule = "field_rule"
      rest == IF hasRule THEN Tail(inner) ELSE inner
  IN [name |-> IF Len(rest) >= 2 THEN rest[2].str ELSE "",
      type_name |-> IF Len(rest) >= 1 THEN rest[1].str ELSE "",
      tag |-> IF Len(rest) >= 3 THEN unwrap_or(parse_i32(rest[3].str), 0) ELSE 0,
      repeated |-> \E k \in 1..Len(inner) : inner[k].str = "repeated"]

parse_field(pair) ==
  LET inner == pair.inner
      hasRule == Len(inner) >= 1 /\ inner[1].rule = "field_rule"
      rest == IF hasRule THEN Tail(inner) ELSE inner
  IN [name |-> IF Len(rest) >= 2 THEN rest[2].str ELSE "",
      type_name |-> IF Len(rest) >= 1 THEN rest[1].str ELSE "",
      tag |-> IF Len(rest) >= 3 THEN unwrap_or(parse_i32(rest[3].str), 0) ELSE 0,
      repeated |-> hasRule /\ inner[1].str = "repeated"]

parse_enum_value(pair) ==
  LET vp == pair.inner
  IN [name |-> IF Len(vp) >= 1 THEN vp[1].str ELSE "",
      number |-> IF Len(vp) >= 2 THEN unwrap_or(parse_i32(vp[2].str), 0) ELSE 0]

parse_enum(pair) ==
  LET vals == OfRule(Rest(pair.inner), "enum_value")
  IN [name |-> NameOf(pair.inner),
      values |-> [k \in 1..Len(vals) |-> parse_enum_value(vals[k])]]

(* variant: the text of the message_type pair itself, not of its inner pair *)
InnerTypeOf_whole_pair(pair) == pair.str

(* input_pair.into_inner().next().unwrap().as_str() *)
InnerTypeOf(pair) == pair.inner[1].str

parse_method(pair) ==
  LET rp == pair.inner
  IN [name |-> IF Len(rp) >= 1 THEN rp[1].str ELSE "",
      input_type |-> IF Len(rp) >= 2 THEN InnerTypeOf(rp[2]) ELSE "",
      output_type |-> IF Len(rp) >= 3 THEN InnerTypeOf(rp[3]) ELSE ""]

parse_service(pair) ==
  LET rpcs == OfRule(Rest(pair.inner), "rpc_def")
  IN [name |-> NameOf(pair.inner),
      methods |-> [k \in 1..Len(rpcs) |-> parse_method(rpcs[k])]]

(* variant: a nested message gets its name, fields and enums, but the       *)
(* messages nested in it are not descended into                            *)
parse_message_one_level(pair) ==
  LET rest == Rest(pair.inner)
      fs == OfRule(rest, "field")
      ms == OfRule(rest, "message_def")
      es == OfRule(rest, "enum_def")
      shallow(p) ==
        [name |-> NameOf(p.inner),
         fields |-> [k \in 1..Len(OfRule(Rest(p.inner), "field")) |->
                       parse_field(OfRule(Rest(p.inner), "field")[k])],
         nested_messages |-> <<>>,
         nested_enums |-> [k \in 1..Len(OfRule(Rest(p.inner), "enum_def")) |->
                             parse_enum(OfRule(Rest(p.inner), "enum_def")[k])]]
  IN [name |-> NameOf(pair.inner),
      fields |-> [k \in 1..Len(fs) |-> parse_field(fs[k])],
      nested_messages |-> [k \in 1..Len(ms) |-> shallow(ms[k])],
      nested_enums |-> [k \in 1..Len(es) |-> parse_enum(es[k])]]

RECURSIVE parse_message(_)
(* variant: a pair that is no message_def and no enum_def is taken for a field *)
parse_message_other_is_field(pair) ==
  LET rest == Rest(pair.inner)
      fds == SelectSeq(rest, LAMBDA p : p.rule \notin {"message_def", "enum_def"})
      ms == OfRule(rest, "message_def")
      es == OfRule(rest, "enum_def")
  IN [name |-> NameOf(pair.inner),
      fields |-> [k \in 1..Len(fds) |-> parse_field(fds[k])],
      nested_messages |-> [k \in 1..Len(ms) |-> parse_message(ms[k])],
      nested_enums |-> [k \in 1..Len(es) |-> parse_enum(es[k])]]

parse_message(pair) ==
  LET rest == Rest(pair.inner)
      fs == OfRule(rest, "field")
      ms == OfRule(rest, "message_def")
      es == OfRule(rest, "enum_def")
  IN [name |-> NameOf(pair.inner),
      fields |-> [k \in 1..Len(fs) |-> parse_field(fs[k])],
      nested_messages |-> [k \in 1..Len(ms) |-> parse_message(ms[k])],
      nested_enums |-> [k \in 1..Len(es) |-> parse_enum(es[k])]]

(* variant: no default for syntax *)
DefaultProto_no_syntax ==
  [syntax |-> "", package |-> NoneValue, imports |-> <<>>,
   messages |-> <<>>, enums |-> <<>>, services |-> <<>>]

(* variant: the Proto is kept between calls, so a call starts from what the  *)
(* call before it collected                                                *)
DefaultProto_left_over ==
  IF proto.some THEN proto.val
  ELSE [syntax |-> "proto3", package |-> NoneValue, imports |-> <<>>,
        messages |-> <<>>, enums |-> <<>>, services |-> <<>>]

(* lines 172-179: the Proto every call starts from *)
DefaultProto ==
  [syntax |-> "proto3", package |-> NoneValue, imports |-> <<>>,
   messages |-> <<>>, enums |-> <<>>, services |-> <<>>]

(* variant: a definition is put in front of the ones already collected *)
ProtoStep_prepend(p, ip) ==
  IF ip.rule = "syntax"
    THEN [p EXCEPT !.syntax = trim_matches(ip.inner[1].str, "\"")]
  ELSE IF ip.rule = "package"
    THEN [p EXCEPT !.package = Some(ip.inner[1].str)]
  ELSE IF ip.rule = "import"
    THEN [p EXCEPT !.imports = Append(@, trim_matches(ip.inner[1].str, "\""))]
  ELSE IF ip.rule = "message_def"
    THEN [p EXCEPT !.messages = <<parse_message(ip)>> \o @]
  ELSE IF ip.rule = "enum_def"
    THEN [p EXCEPT !.enums = <<parse_enum(ip)>> \o @]
  ELSE IF ip.rule = "service_def"
    THEN [p EXCEPT !.services = <<parse_service(ip)>> \o @]
  ELSE p

(* variant: the package is read from the statement's own text, not from its *)
(* inner full_ident                                                        *)
ProtoStep_statement_text(p, ip) ==
  IF ip.rule = "syntax"
    THEN [p EXCEPT !.syntax = trim_matches(ip.inner[1].str, "\"")]
  ELSE IF ip.rule = "package"
    THEN [p EXCEPT !.package = Some(ip.str)]
  ELSE IF ip.rule = "import"
    THEN [p EXCEPT !.imports = Append(@, trim_matches(ip.inner[1].str, "\""))]
  ELSE IF ip.rule = "message_def"
    THEN [p EXCEPT !.messages = Append(@, parse_message(ip))]
  ELSE IF ip.rule = "enum_def"
    THEN [p EXCEPT !.enums = Append(@, parse_enum(ip))]
  ELSE IF ip.rule = "service_def"
    THEN [p EXCEPT !.services = Append(@, parse_service(ip))]
  ELSE p

(* one turn of the loop over the inner pairs of proto_file *)
ProtoStep(p, ip) ==
  IF ip.rule = "syntax"
    THEN [p EXCEPT !.syntax = trim_matches(ip.inner[1].str, "\"")]
  ELSE IF ip.rule = "package"
    THEN [p EXCEPT !.package = Some(ip.inner[1].str)]
  ELSE IF ip.rule = "import"
    THEN [p EXCEPT !.imports = Append(@, trim_matches(ip.inner[1].str, "\""))]
  ELSE IF ip.rule = "message_def"
    THEN [p EXCEPT !.messages = Append(@, parse_message(ip))]
  ELSE IF ip.rule = "enum_def"
    THEN [p EXCEPT !.enums = Append(@, parse_enum(ip))]
  ELSE IF ip.rule = "service_def"
    THEN [p EXCEPT !.services = Append(@, parse_service(ip))]
  ELSE p

RECURSIVE FoldPairs(_, _, _)
FoldPairs(p, seq, k) ==
  IF k > Len(seq) THEN p ELSE FoldPairs(ProtoStep(p, seq[k]), seq, k + 1)

(* the loop over the top-level pairs: only proto_file is looked into *)
RECURSIVE BuildProto(_, _, _)
BuildProto(p, pairs, k) ==
  IF k > Len(pairs) THEN p
  ELSE IF pairs[k].rule = "proto_file"
       THEN BuildProto(FoldPairs(p, pairs[k].inner, 1), pairs, k + 1)
  ELSE BuildProto(p, pairs, k + 1)

(* an unwrap() of lines 190, 200, 210, 372, 375 meets None *)
RECURSIVE UnwrapPanics(_)
UnwrapPanics(pair) ==
  \/ pair.rule \in {"syntax", "package", "import"} /\ Len(pair.inner) = 0
  \/ /\ pair.rule = "rpc_def"
     /\ \E k \in 2..3 : k <= Len(pair.inner) /\ Len(pair.inner[k].inner) = 0
  \/ /\ pair.rule \in {"proto_file", "service_def"}
     /\ \E k \in 1..Len(pair.inner) : UnwrapPanics(pair.inner[k])


(***************************************************************************)
(* Serializer: #[derive(Serialize)] writes a struct's fields in the order  *)
(* of their declaration; serde_json::to_string_pretty renders the text.    *)
(* A JSON object is the sequence of its <<key, value>> members.            *)
(***************************************************************************)
JString(s) == [t |-> "string", v |-> s]
JNumber(n) == [t |-> "number", v |-> n]
JBool(b) == [t |-> "bool", v |-> b]
JNull == [t |-> "null"]
JArray(items) == [t |-> "array", v |-> items]
JObject(members) == [t |-> "object", v |-> members]

Field_serialize(f) ==
  JObject(<< <<"name", JString(f.name)>>, <<"type_name", JString(f.type_name)>>,
             <<"tag", JNumber(f.tag)>>, <<"repeated", JBool(f.repeated)>> >>)

EnumValue_serialize(v) ==
  JObject(<< <<"name", JString(v.name)>>, <<"number", JNumber(v.number)>> >>)

EnumDef_serialize(e) ==
  JObject(<< <<"name", JString(e.name)>>,
             <<"values", JArray([k \in 1..Len(e.values) |->
                                   EnumValue_serialize(e.values[k])])>> >>)

Method_serialize(m) ==
  JObject(<< <<"name", JString(m.name)>>, <<"input_type", JString(m.input_type)>>,
             <<"output_type", JString(m.output_type)>> >>)

Service_serialize(sv) ==
  JObject(<< <<"name", JString(sv.name)>>,
             <<"methods", JArray([k \in 1..Len(sv.methods) |->
                                    Method_serialize(sv.methods[k])])>> >>)

RECURSIVE Message_serialize(_)
(* variant: nested_enums is declared before nested_messages *)
Message_serialize_enums_first(m) ==
  JObject(<< <<"name", JString(m.name)>>,
             <<"fields", JArray([k \in 1..Len(m.fields) |-> Field_serialize(m.fields[k])])>>,
             <<"nested_enums", JArray([k \in 1..Len(m.nested_enums) |->
                                         EnumDef_serialize(m.nested_enums[k])])>>,
             <<"nested_messages", JArray([k \in 1..Len(m.nested_messages) |->
                                            Message_serialize(m.nested_messages[k])])>> >>)

Message_serialize(m) ==
  JObject(<< <<"name", JString(m.name)>>,
             <<"fields", JArray([k \in 1..Len(m.fields) |-> Field_serialize(m.fields[k])])>>,
             <<"nested_messages", JArray([k \in 1..Len(m.nested_messages) |->
                                            Message_serialize(m.nested_messages[k])])>>,
             <<"nested_enums", JArray([k \in 1..Len(m.nested_enums) |->
                                         EnumDef_serialize(m.nested_enums[k])])>> >>)

(* variant: an absent package is written as an empty string *)
Proto_serialize_package_string(p) ==
  JObject(<< <<"syntax", JString(p.syntax)>>,
             <<"package", JString(IF p.package.some THEN p.package.val ELSE "")>>,
             <<"imports", JArray([k \in 1..Len(p.imports) |-> JString(p.imports[k])])>>,
             <<"messages", JArray([k \in 1..Len(p.messages) |->
                                     Message_serialize(p.messages[k])])>>,
             <<"enums", JArray([k \in 1..Len(p.enums) |-> EnumDef_serialize(p.enums[k])])>>,
             <<"services", JArray([k \in 1..Len(p.services) |->
                                     Service_serialize(p.services[k])])>> >>)

Proto_serialize(p) ==
  JObject(<< <<"syntax", JString(p.syntax)>>,
             <<"package", IF p.package.some THEN JString(p.package.val) ELSE JNull>>,
             <<"imports", JArray([k \in 1..Len(p.imports) |-> JString(p.imports[k])])>>,
             <<"messages", JArray([k \in 1..Len(p.messages) |->
                                     Message_serialize(p.messages[k])])>>,
             <<"enums", JArray([k \in 1..Len(p.enums) |-> EnumDef_serialize(p.enums[k])])>>,
             <<"services", JArray([k \in 1..Len(p.services) |->
                                     Service_serialize(p.services[k])])>> >>)

(* decimal text of an integer: the digits of places hi down to lo *)
Digits(n) ==
  IF n >= 10 ^ 9 THEN 10
  ELSE CHOOSE d \in 1..9 : n < 10 ^ d /\ (d = 1 \/ n >= 10 ^ (d - 1))

RECURSIVE ItoaPlaces(_, _, _)
ItoaPlaces(n, hi, lo) ==
  IF hi = lo THEN At("0123456789", ((n \div (10 ^ lo)) % 10) + 1)
  ELSE LET mid == (hi + lo + 1) \div 2
       IN ItoaPlaces(n, hi, mid) \o ItoaPlaces(n, mid - 1, lo)

Itoa(n) ==
  IF n < 0 THEN "-" \o ItoaPlaces(-n, Digits(-n) - 1, 0)
  ELSE ItoaPlaces(n, Digits(n) - 1, 0)

(* the JSON escapes of the characters a string literal can hold *)
EscapeChar(c) ==
  CASE c = "\"" -> "\\\""
    [] c = "\\" -> "\\\\"
    [] c = "\n" -> "\\n"
    [] c = "\r" -> "\\r"
    [] c = "\t" -> "\\t"
    [] OTHER -> c

RECURSIVE EscapeRange(_, _, _)
EscapeRange(s, a, b) ==
  IF a > b THEN ""
  ELSE IF a = b THEN EscapeChar(At(s, a))
  ELSE LET mid == (a + b) \div 2
       IN EscapeRange(s, a, mid) \o EscapeRange(s, mid + 1, b)

Quoted(s) == "\"" \o EscapeRange(s, 1, Len(s)) \o "\""

Indent(n) == SubSeq("                                        ", 1, 2 * n)

(* serde_json's PrettyFormatter: two spaces per level, one element or member *)
(* per line, an empty array as "[]".  PrettyItems and PrettyMembers render   *)
(* the first k elements.                                                     *)
RECURSIVE Pretty(_, _)
RECURSIVE PrettyItems(_, _, _)
RECURSIVE PrettyMembers(_, _, _)
PrettyItems(items, k, ind) ==
  IF k = 0 THEN ""
  ELSE PrettyItems(items, k - 1, ind)
       \o ((IF k > 1 THEN ",\n" ELSE "\n") \o Indent(ind) \o Pretty(items[k], ind))

PrettyMembers(members, k, ind) ==
  IF k = 0 THEN ""
  ELSE PrettyMembers(members, k - 1, ind)
       \o ((IF k > 1 THEN ",\n" ELSE "\n") \o Indent(ind) \o Quoted(members[k][1])
           \o ": " \o Pretty(members[k][2], ind))

Pretty(j, ind) ==
  CASE j.t = "string" -> Quoted(j.v)
    [] j.t = "number" -> Itoa(j.v)
    [] j.t = "bool" -> (IF j.v THEN "true" ELSE "false")
    [] j.t = "null" -> "null"
    [] j.t = "array" /\ Len(j.v) = 0 -> "[]"
    [] j.t = "array" /\ Len(j.v) > 0 ->
         "[" \o (PrettyItems(j.v, Len(j.v), ind + 1) \o ("\n" \o Indent(ind) \o "]"))
    [] j.t = "object" /\ Len(j.v) = 0 -> "{}"
    [] j.t = "object" /\ Len(j.v) > 0 ->
         "{" \o (PrettyMembers(j.v, Len(j.v), ind + 1) \o ("\n" \o Indent(ind) \o "}"))

to_string_pretty(p) == Pretty(Proto_serialize(p), 0)

(***************************************************************************)
(* serde_json::from_str::<Value> (main.rs:126): a JSON text read back into *)
(* a value.  The text is cut into tokens, each token is given its nesting  *)
(* level, and a value is read from the range of tokens it spans.           *)
(***************************************************************************)
(* first index j >= i with s[j] in stops (Len(s)+1 when none) *)
SkipTo(s, i, stops) ==
  CHOOSE j \in i..(Len(s) + 1) :
    /\ j = Len(s) + 1 \/ At(s, j) \in stops
    /\ \A k \in i..(j - 1) : At(s, k) \notin stops

StartsWith(s, i, w) == i + Len(w) - 1 <= Len(s) /\ SubSeq(s, i, i + Len(w) - 1) = w

(* the closing quote of the string whose content starts at i: the first    *)
(* quote that no backslash escapes (Len(s)+1 when none)                    *)
RECURSIVE StringEnd(_, _)
StringEnd(s, i) ==
  LET j == SkipTo(s, i, {"\"", "\\"})
  IN IF At(s, j) = "\\" THEN StringEnd(s, j + 2)
     ELSE IF j > Len(s) THEN Len(s) + 1 ELSE j

JsonTokenAt(s, i) ==
  CASE At(s, i) \in {"{", "}", "[", "]", ":", ","} -> Tok(At(s, i), i, i)
    [] At(s, i) = "\"" /\ StringEnd(s, i + 1) <= Len(s) -> Tok("string", i, StringEnd(s, i + 1))
    [] At(s, i) \in Digit -> Tok("number", i, SkipClass(s, i, Digit) - 1)
    [] At(s, i) = "-" /\ At(s, i + 1) \in Digit -> Tok("number", i, SkipClass(s, i + 1, Digit) - 1)
    [] StartsWith(s, i, "true") -> Tok("true", i, i + 3)
    [] StartsWith(s, i, "false") -> Tok("false", i, i + 4)
    [] StartsWith(s, i, "null") -> Tok("null", i, i + 3)
    [] OTHER -> Tok("none", i, i)

(* at most n tokens of s from position i on, whitespace skipped (the text  *)
(* cut in two halves, as in LexUpTo)                                       *)
RECURSIVE JsonLexUpTo(_, _, _)
JsonLexUpTo(s, i, n) ==
  IF n <= 1
  THEN LET j == SkipClass(s, i, WhitespaceChar)
           tk == JsonTokenAt(s, j)
       IN CASE j > Len(s) -> [ok |-> TRUE, done |-> TRUE, toks |-> <<>>, next |-> j]
            [] tk.kind = "none" -> [ok |-> FALSE, done |-> TRUE, toks |-> <<>>, next |-> j]
            [] OTHER -> [ok |-> TRUE, done |-> FALSE, toks |-> <<tk>>, next |-> tk.e + 1]
  ELSE LET a == JsonLexUpTo(s, i, n \div 2)
           b == JsonLexUpTo(s, a.next, n - (n \div 2))
       IN IF a.done THEN a
          ELSE [ok |-> b.ok, done |-> b.done, toks |-> a.toks \o b.toks, next |-> b.next]

(* the nesting level of each of the tokens lo..hi: the number of brackets  *)
(* open before it, base being that number before token lo                  *)
RECURSIVE Levels(_, _, _, _)
Levels(toks, lo, hi, base) ==
  IF lo > hi THEN <<>>
  ELSE IF lo = hi THEN <<base>>
  ELSE LET mid == (lo + hi) \div 2
           left == Levels(toks, lo, mid, base)
       IN left \o Levels(toks, mid + 1, hi,
                         left[Len(left)] + (IF toks[mid].kind \in {"{", "["} THEN 1
                                            ELSE IF toks[mid].kind \in {"}", "]"} THEN -1
                                            ELSE 0))

(* the content of a string token with its escapes undone *)
RECURSIVE Unescape(_)
Unescape(str) ==
  LET j == SkipTo(str, 1, {"\\"})
  IN IF j >= Len(str) THEN str
     ELSE SubSeq(str, 1, j - 1)
          \o ((CASE At(str, j + 1) = "n" -> "\n"
                  [] At(str, j + 1) = "r" -> "\r"
                  [] At(str, j + 1) = "t" -> "\t"
                  [] OTHER -> At(str, j + 1))
              \o Unescape(SubSeq(str, j + 2, Len(str))))

(* the value of the digits a..b of str *)
RECURSIVE DigitsValue(_, _, _)
DigitsValue(str, a, b) ==
  IF a > b THEN 0
  ELSE IF a = b THEN DigitValue(At(str, a))
  ELSE LET mid == (a + b) \div 2
       IN DigitsValue(str, a, mid) * (10 ^ (b - mid)) + DigitsValue(str, mid + 1, b)

(* the tokens between a and b that separate the elements of the array or   *)
(* object opened at a and closed at b, with a and b themselves             *)
Cuts(toks, lvl, a, b) ==
  <<a>> \o SelectSeq([k \in 1..(b - a - 1) |-> a + k],
                     LAMBDA k : toks[k].kind = "," /\ lvl[k] = lvl[a] + 1) \o <<b>>

(* the value that the tokens a..b spell *)
(* [t |-> "invalid"] stands for what is not JSON.  An element of an array  *)
(* is a value; a member of an object is a string, ":" and a value.         *)
RECURSIVE ReadValue(_, _, _, _, _)
ReadElements(s, toks, lvl, cut, object) ==
  [k \in 1..(Len(cut) - 1) |->
     IF ~object THEN ReadValue(s, toks, lvl, cut[k] + 1, cut[k + 1] - 1)
     ELSE IF /\ cut[k] + 3 <= cut[k + 1] - 1
             /\ toks[cut[k] + 1].kind = "string" /\ toks[cut[k] + 2].kind = ":"
       THEN <<Unescape(SubSeq(s, toks[cut[k] + 1].s + 1, toks[cut[k] + 1].e - 1)),
              ReadValue(s, toks, lvl, cut[k] + 3, cut[k + 1] - 1)>>
     ELSE <<"", [t |-> "invalid"]>>]

ReadValue(s, toks, lvl, a, b) ==
  CASE a > b -> [t |-> "invalid"]
    [] a = b /\ toks[a].kind = "string" -> JString(Unescape(SubSeq(s, toks[a].s + 1, toks[a].e - 1)))
    [] a = b /\ toks[a].kind = "number" ->
         JNumber(IF At(s, toks[a].s) = "-" THEN -DigitsValue(s, toks[a].s + 1, toks[a].e)
                 ELSE DigitsValue(s, toks[a].s, toks[a].e))
    [] a = b /\ toks[a].kind \in {"true", "false"} -> JBool(toks[a].kind = "true")
    [] a = b /\ toks[a].kind = "null" -> JNull
    [] a + 1 = b /\ toks[a].kind = "[" /\ toks[b].kind = "]" -> JArray(<<>>)
    [] a + 1 = b /\ toks[a].kind = "{" /\ toks[b].kind = "}" -> JObject(<<>>)
    [] a + 1 < b /\ toks[a].kind = "[" /\ toks[b].kind = "]" /\ lvl[b] = lvl[a] + 1 ->
         JArray(ReadElements(s, toks, lvl, Cuts(toks, lvl, a, b), FALSE))
    [] a + 1 < b /\ toks[a].kind = "{" /\ toks[b].kind = "}" /\ lvl[b] = lvl[a] + 1 ->
         JObject(ReadElements(s, toks, lvl, Cuts(toks, lvl, a, b), TRUE))
    [] OTHER -> [t |-> "invalid"]

RECURSIVE JsonValid(_)
JsonValid(j) ==
  CASE j.t = "invalid" -> FALSE
    [] j.t = "array" -> \A k \in 1..Len(j.v) : JsonValid(j.v[k])
    [] j.t = "object" -> \A k \in 1..Len(j.v) : JsonValid(j.v[k][2])
    [] OTHER -> TRUE

(* the text as a JSON value, its object members in the order of the text *)
ReadJson(s) ==
  LET lx == JsonLexUpTo(s, 1, Len(s) + 1)
  IN IF lx.ok THEN ReadValue(s, lx.toks, Levels(lx.toks, 1, Len(lx.toks), 0), 1, Len(lx.toks))
     ELSE [t |-> "invalid"]

(***************************************************************************)
(* Proto::parse                                                            *)
(***************************************************************************)
Ok(json) == [kind |-> "Ok", json |-> json]

Err(variant) == [kind |-> "Err", variant |-> variant]

(* lines 234-235: the Proto is serialized and the text returned *)
parse_serialize(p) == [proto |-> Some(p), result |-> Ok(to_string_pretty(p))]

(* variant: a grammar failure is swallowed and the default document returned *)
parse_pairs_recovering(r) ==
  parse_serialize(IF r.ok THEN BuildProto(DefaultProto, r.pairs, 1) ELSE DefaultProto)

(* variant: the grammar's error is reported as the SyntaxError variant *)
parse_pairs_as_syntax_error(r) ==
  IF ~r.ok THEN [proto |-> NoneValue, result |-> Err("SyntaxError")]
  ELSE parse_serialize(BuildProto(DefaultProto, r.pairs, 1))

(* lines 170-235, r being what ProtoParser::parse returned: Err(ParseError)  *)
(* by the `?` of line 170 before any Proto exists, a panic of an unwrap(),   *)
(* or the Proto built from the pairs, serialized.                           *)
parse_pairs(r) ==
  IF ~r.ok THEN [proto |-> NoneValue, result |-> Err("ParseError")]
  ELSE IF \E k \in 1..Len(r.pairs) : UnwrapPanics(r.pairs[k])
       THEN [proto |-> NoneValue, result |-> [kind |-> "Panic"]]
  ELSE parse_serialize(BuildProto(DefaultProto, r.pairs, 1))

(* One call of parse: the Proto it holds when it serializes (None when it   *)
(* returns early) and what it yields.                                      *)
parse_run(s) == parse_pairs(ProtoParser_parse(s))

parse(s) == parse_run(s).result


(***************************************************************************)
(* Source texts.  A text is written from a declared document (src): its    *)
(* tokens in order, separated according to a layout, with at most one      *)
(* defect.                                                                 *)
(***************************************************************************)
MaxNest == 3      \* depth of message nesting
MaxFields == 2    \* fields of the message of the field texts
MaxValues == 2    \* values of the enum of the enum texts
MaxMethods == 2   \* methods of the service of the service texts
MaxImports == 2   \* import statements
MaxDefs == 2      \* top-level definitions of the ordering texts

SField(rule, type, name, num) ==
  [kind |-> "field", rule |-> rule, type |-> type, name |-> name, num |-> num]
SEmpty == [kind |-> "empty"]
SMessage(name, elems) == [kind |-> "message", name |-> name, elems |-> elems]
SValue(name, num) == [name |-> name, num |-> num]
SEnum(name, values) == [kind |-> "enum", name |-> name, values |-> values]
SMethod(name, ins, input_type, outs, output_type, body) ==
  [name |-> name, ins |-> ins, input_type |-> input_type, outs |-> outs,
   output_type |-> output_type, body |-> body]
SService(name, methods) == [kind |-> "service", name |-> name, methods |-> methods]
SDoc(syntax, package, imports, defs) ==
  [syntax |-> syntax, package |-> package, imports |-> imports, defs |-> defs]

RECURSIVE Concat(_)
Concat(seqs) == IF Len(seqs) = 0 THEN <<>> ELSE Head(seqs) \o Concat(Tail(seqs))

FieldTokens(f) ==
  (IF f.rule = "" THEN <<>> ELSE <<f.rule>>) \o <<f.type, f.name, "=", f.num, ";">>

EnumTokens(e) ==
  <<"enum", e.name, "{">>
  \o Concat([k \in 1..Len(e.values) |-> <<e.values[k].name, "=", e.values[k].num, ";">>])
  \o <<"}">>

MethodTokens(m) ==
  <<"rpc", m.name, "(">> \o (IF m.ins THEN <<"stream">> ELSE <<>>) \o <<m.input_type, ")">>
  \o <<"returns", "(">> \o (IF m.outs THEN <<"stream">> ELSE <<>>) \o <<m.output_type, ")">>
  \o (IF m.body THEN <<"{", "}">> ELSE <<";">>)

ServiceTokens(sv) ==
  <<"service", sv.name, "{">>
  \o Concat([k \in 1..Len(sv.methods) |-> MethodTokens(sv.methods[k])]) \o <<"}">>

RECURSIVE MessageTokens(_)
MessageTokens(m) ==
  <<"message", m.name, "{">>
  \o Concat([k \in 1..Len(m.elems) |->
               IF m.elems[k].kind = "field" THEN FieldTokens(m.elems[k])
               ELSE IF m.elems[k].kind = "message" THEN MessageTokens(m.elems[k])
               ELSE IF m.elems[k].kind = "enum" THEN EnumTokens(m.elems[k])
               ELSE <<";">>])
  \o <<"}">>

DefTokens(d) ==
  IF d.kind = "message" THEN MessageTokens(d)
  ELSE IF d.kind = "enum" THEN EnumTokens(d)
  ELSE ServiceTokens(d)

DocTokens(d) ==
  (IF d.syntax.some THEN <<"syntax", "=", "\"" \o d.syntax.val \o "\"", ";">> ELSE <<>>)
  \o (IF d.package.some THEN <<"package", d.package.val, ";">> ELSE <<>>)
  \o Concat([k \in 1..Len(d.imports) |-> <<"import", "\"" \o d.imports[k] \o "\"", ";">>])
  \o Concat([k \in 1..Len(d.defs) |-> DefTokens(d.defs[k])])

(* the defect applied to the tokens *)
NoDamage == [kind |-> "none"]

Damaged(toks, dmg) ==
  IF dmg.kind = "drop"
    THEN SubSeq(toks, 1, dmg.at - 1) \o SubSeq(toks, dmg.at + 1, Len(toks))
  ELSE IF dmg.kind = "unterminated"
    THEN [toks EXCEPT ![dmg.at] = SubSeq(@, 1, Len(@) - 1)]
  ELSE IF dmg.kind = "extra_brace" THEN Append(toks, "}")
  ELSE IF dmg.kind = "late"
    THEN toks \o (IF dmg.stmt = "syntax" THEN <<"syntax", "=", "\"proto3\"", ";">>
                  ELSE IF dmg.stmt = "package" THEN <<"package", "late", ";">>
                  ELSE <<"import", "\"late.proto\"", ";">>)
  ELSE IF dmg.kind = "trailing" THEN Append(toks, dmg.text)
  ELSE toks

(* the defects a token sequence can be given: a required ";" or a brace     *)
(* left out, a string literal left open, a "}" too many; a syntax          *)
(* statement after another statement, a package or import statement after  *)
(* a definition; text that is no statement after the last statement        *)
Damages(toks) ==
  {[kind |-> "drop", at |-> k] : k \in {j \in 1..Len(toks) : toks[j] \in {";", "{", "}"}}}
  \cup {[kind |-> "unterminated", at |-> k] :
          k \in {j \in 1..Len(toks) : At(toks[j], 1) = "\""}}
  \cup {[kind |-> "extra_brace"]}
  \cup {[kind |-> "late", stmt |-> w] :
          w \in {x \in {"syntax", "package", "import"} :
                   /\ Len(toks) > 0
                   /\ x = "syntax" \/ toks[Len(toks)] = "}"}}
  \cup {[kind |-> "trailing", text |-> w] : w \in {"x", ";", "="}}

WordLike(tok) == At(tok, 1) \in IdentChar

(* what is written in gap k, the place before token k (after the last       *)
(* token for k = Len(toks) + 1): the layout's whitespace, and its comment    *)
(* in the one gap that has it; two words are never written without a       *)
(* separator between them                                                  *)
Gap(toks, k, lay) ==
  IF lay.at = k THEN lay.ws \o lay.cm \o lay.ws
  ELSE IF lay.ws = "" /\ k > 1 /\ k <= Len(toks)
          /\ WordLike(toks[k - 1]) /\ WordLike(toks[k]) THEN " "
  ELSE lay.ws

(* gaps lo..hi with the tokens after them; the range is cut in two halves *)
RECURSIVE WriteRange(_, _, _, _)
WriteRange(toks, lo, hi, lay) ==
  IF lo > hi THEN ""
  ELSE IF lo = hi THEN Gap(toks, lo, lay) \o (IF lo <= Len(toks) THEN toks[lo] ELSE "")
  ELSE WriteRange(toks, lo, (lo + hi) \div 2, lay)
       \o WriteRange(toks, ((lo + hi) \div 2) + 1, hi, lay)

WriteTokens(toks, lay) == WriteRange(toks, 1, Len(toks) + 1, lay)

Written(d, lay, dmg) == WriteTokens(Damaged(DocTokens(d), dmg), lay)

PlainLayout == [ws |-> " ", cm |-> "", at |-> 0]

WhitespaceStyles == {" ", "\t", "\n", "\r", ""}

CommentStyles == {"// c;\n", "/* c } */"}

Layouts(toks) ==
  {[ws |-> w, cm |-> "", at |-> 0] : w \in WhitespaceStyles}
  \cup {[ws |-> w, cm |-> c, at |-> k] :
          w \in WhitespaceStyles, c \in CommentStyles, k \in 1..(Len(toks) + 1)}

(* --- the declared documents ------------------------------------------- *)
SeqsUpTo(S, n) == UNION {[1..m -> S] : m \in 0..n}

Names == <<"a", "b", "c", "d">>

UpperNames == <<"A", "B", "C", "D">>

Proto3 == Some("proto3")

OneMessage(elems) == SDoc(Proto3, NoneValue, <<>>, <<SMessage("M", elems)>>)

(* a message of up to MaxFields fields: every modifier, tags around the    *)
(* limit of a signed 32-bit integer; and a message of one field whose type *)
(* and name are spelled like keywords (a type spelled like a modifier      *)
(* always has a modifier before it)                                        *)
FieldRuleChoices == {"", "repeated", "optional", "required"}

TagChoices == {"1", "2147483647", "2147483648"}

FieldDocs ==
  {OneMessage([k \in 1..Len(c) |->
                 SField(c[k][1], IF k = 1 THEN "string" ELSE "B", Names[k], c[k][2])]) :
     c \in SeqsUpTo(FieldRuleChoices \X TagChoices, MaxFields)}
  \cup {OneMessage(<<SField(c[1], c[2], c[3], "5")>>) :
          c \in (FieldRuleChoices \X {"repeated", "optional", "stream", "returns"}
                                 \X {"repeated", "required", "syntax"})
               \ ({""} \X FieldRules \X {"repeated", "required", "syntax"})}

(* an enum of up to MaxValues values *)
NumberChoices == {"0", "007", "2147483647", "99999999999"}

EnumDocs ==
  {SDoc(NoneValue, NoneValue, <<>>,
        <<SEnum("E", [k \in 1..Len(c) |-> SValue(UpperNames[k], c[k])])>>) :
     c \in SeqsUpTo(NumberChoices, MaxValues)}

(* a service of up to MaxMethods methods, streaming or not, ";" or "{}" *)
ServiceDocs ==
  {SDoc(Proto3, NoneValue, <<>>,
        <<SService("S", [k \in 1..Len(c) |->
                           SMethod(UpperNames[k], c[k][1], "Req", c[k][2], "Res", c[k][3])])>>) :
     c \in SeqsUpTo(BOOLEAN \X BOOLEAN \X BOOLEAN, MaxMethods)}

(* messages nested up to MaxNest deep; c[k] says what level k holds beside  *)
(* the message nested in it                                                *)
LevelChoices == {"bare", "field_before", "field_after", "enum_and_field", "sibling", "empty"}

RECURSIVE Nested(_, _)
Nested(c, k) ==
  LET inner == IF k < Len(c) THEN <<Nested(c, k + 1)>> ELSE <<>>
      f == SField("", "int32", Names[k], Itoa(k))
  IN SMessage(UpperNames[k],
       IF c[k] = "field_before" THEN <<f>> \o inner
       ELSE IF c[k] = "field_after" THEN inner \o <<f>>
       ELSE IF c[k] = "enum_and_field"
         THEN <<SEnum("E", <<SValue(UpperNames[k], Itoa(k))>>)>> \o inner \o <<f>>
       ELSE IF c[k] = "sibling" THEN <<SMessage("S", <<f>>)>> \o inner
       ELSE IF c[k] = "empty" THEN <<SEmpty>> \o inner \o <<SEmpty>>
       ELSE inner)

NestDocs ==
  {SDoc(Proto3, NoneValue, <<>>, <<Nested(c, 1)>>) :
     c \in UNION {[1..m -> LevelChoices] : m \in 1..MaxNest}}

(* the statements before the definitions *)
SyntaxChoices == {NoneValue, Some("proto3"), Some("proto2"), Some("")}

PackageChoices == {NoneValue, Some("a"), Some("test.v1.api")}

ImportChoices == {"other.proto", "a/b-c_d.proto"}

HeaderDocs ==
  {SDoc(sy, pk, im, df) :
     sy \in SyntaxChoices, pk \in PackageChoices,
     im \in SeqsUpTo(ImportChoices, MaxImports),
     df \in {<<>>, <<SMessage("M", <<SField("", "string", "name", "1")>>)>>}}

(* up to MaxDefs top-level definitions of each kind, in every order *)
DefChoices ==
  {SMessage("M", <<SField("repeated", "N.T", "a", "1")>>), SMessage("N", <<>>),
   SEnum("E", <<SValue("X", "0")>>),
   SService("S", <<SMethod("Get", FALSE, "M", TRUE, "N", FALSE)>>)}

OrderDocs ==
  {SDoc(NoneValue, Some("p"), <<"i">>, df) : df \in SeqsUpTo(DefChoices, MaxDefs)}

(* a document with one of everything (tests/parser_tests.rs,               *)
(* test_proto_file_rule)                                                   *)
FullDoc ==
  SDoc(Proto3, Some("test.v1"), <<"other.proto">>,
       <<SEnum("Status", <<SValue("UNKNOWN", "0")>>),
         SMessage("Test", <<SField("", "string", "name", "1"),
                            SMessage("Nested", <<SEnum("Type", <<>>)>>),
                            SField("repeated", "Nested", "nested", "4")>>),
         SService("TestService", <<SMethod("Get", TRUE, "Test", TRUE, "Test", FALSE)>>)>>)

ValidDocs == FieldDocs \cup EnumDocs \cup ServiceDocs \cup NestDocs \cup HeaderDocs \cup OrderDocs

(* the documents written in every layout, and with every defect *)
LayoutDocs == {FullDoc}

DamageDocs ==
  {FullDoc, SDoc(Proto3, NoneValue, <<"x">>, <<>>),
   SDoc(NoneValue, Some("p"), <<>>, <<SMessage("M", <<SMessage("N", <<>>)>>)>>)}

Cases ==
  {[src |-> d, layout |-> PlainLayout, damage |-> NoDamage] : d \in ValidDocs}
  \cup UNION {{[src |-> d, layout |-> l, damage |-> NoDamage] : l \in Layouts(DocTokens(d))} :
                d \in LayoutDocs}
  \cup UNION {{[src |-> d, layout |-> PlainLayout, damage |-> g] : g \in Damages(DocTokens(d))} :
                d \in DamageDocs}


(***************************************************************************)
(* The state machine: one call of Proto::parse on a written text           *)
(***************************************************************************)
Pending == [kind |-> "Pending"]

(* parse is called with the text of case c *)
Called(c) ==
  /\ src = c.src
  /\ layout = c.layout
  /\ damage = c.damage
  /\ input = Written(c.src, c.layout, c.damage)
  /\ pc = "called"
  /\ result = Pending

(* the library is used on its own: no command line, no file, no output *)
NoProcess ==
  /\ args = <<>>
  /\ files = <<>>
  /\ preserve_order = FALSE
  /\ stdout = <<>>
  /\ stderr = <<>>
  /\ exit = NoneValue

Init ==
  /\ \E c \in Cases : Called(c)
  /\ proto = NoneValue
  /\ calls = <<>>
  /\ NoProcess

Parse ==
  /\ pc = "called"
  /\ LET run == parse_run(input)
     IN /\ proto' = run.proto
        /\ result' = run.result
        /\ calls' = Append(calls, [input |-> input, result |-> run.result])
  /\ pc' = "returned"
  /\ UNCHANGED <<src, layout, damage, input>>
  /\ UNCHANGED <<args, files, preserve_order, stdout, stderr, exit>>

Next == Parse

Spec == Init /\ [][Next]_vars

(***************************************************************************)
(* A caller that calls Proto::parse several times, one call after another, *)
(* with any of a few texts in any order                                    *)
(***************************************************************************)
MaxCalls == 3     \* calls of parse made by the caller

CallCases ==
  {[src |-> d, layout |-> PlainLayout, damage |-> NoDamage] :
     d \in {FullDoc,
            SDoc(Some("proto2"), Some("p.q"), <<"x", "y">>, <<>>),
            SDoc(NoneValue, NoneValue, <<>>, <<>>),
            SDoc(NoneValue, NoneValue, <<>>, <<SEnum("E", <<SValue("X", "99999999999")>>)>>)}}
  \cup {[src |-> FullDoc, layout |-> PlainLayout, damage |-> [kind |-> "extra_brace"]]}

InitCalls ==
  /\ \E c \in CallCases : Called(c)
  /\ proto = NoneValue
  /\ calls = <<>>
  /\ NoProcess

(* the call has returned and the caller calls parse again; proto is what the *)
(* call before left behind                                                  *)
CallAgain ==
  /\ pc = "returned"
  /\ Len(calls) < MaxCalls
  /\ \E c \in CallCases :
       /\ src' = c.src
       /\ layout' = c.layout
       /\ damage' = c.damage
       /\ input' = Written(c.src, c.layout, c.damage)
  /\ pc' = "called"
  /\ result' = Pending
  /\ UNCHANGED <<proto, calls>>
  /\ UNCHANGED <<args, files, preserve_order, stdout, stderr, exit>>

NextCalls == Parse \/ CallAgain

SpecCalls == InitCalls /\ [][NextCalls]_vars

(***************************************************************************)
(* Proto::parse_file (src/src/lib.rs) and the command-line program         *)
(* (src/src/main.rs)                                                       *)
(***************************************************************************)
HELP ==
  "\n"
  \o "Usage: proto-file-parser <COMMAND> [OPTIONS]\n"
  \o "\n"
  \o "Commands:\n"
  \o "  parse <FILE>              Parse a protobuf file and output JSON\n"
  \o "    Options:\n"
  \o "      -o, --output <FILE>   Output file (optional, defaults to stdout)\n"
  \o "      -p, --pretty         Pretty print the JSON output\n"
  \o "\n"
  \o "  help                     Show grammar guide and usage information\n"
  \o "  credits                  Show project credits and information\n"
  \o "\n"
  \o "Examples:\n"
  \o "  Parse a protobuf file:\n"
  \o "    proto-file-parser parse input.proto\n"
  \o "\n"
  \o "  Parse and save as pretty-printed JSON:\n"
  \o "    proto-file-parser parse input.proto -p -o output.json\n"
  \o "\n"
  \o "  Show credits:\n"
  \o "    proto-file-parser credits\n"
  \o "\n"
  \o "  Show help:\n"
  \o "    proto-file-parser help\n"

CREDITS ==
  "\n"
  \o "Proto File Parser v0.1.0\n"
  \o "\n"
  \o "Author:\n"
  \o "  Illia Antypenko <i.antypenko@ukma.edu.ua>\n"
  \o "\n"
  \o "Repository:\n"
  \o "  https://github.com/snakeaid/proto-file-parser\n"
  \o "\n"
  \o "Built with:\n"
  \o "  - Rust Programming Language\n"
  \o "  - pest (Parser Generator)\n"
  \o "  - serde (Serialization)\n"
  \o "\n"
  \o "License: MIT\n"

(* the while loop of parse_args over the options, from argument i on *)
RECURSIVE parse_options(_, _, _, _)
parse_options(a, i, output, pretty) ==
  IF i > Len(a)
    THEN [ok |-> TRUE,
          cmd |-> [kind |-> "Parse", file |-> a[2], output |-> output, pretty |-> pretty]]
  ELSE IF a[i] \in {"-o", "--output"}
    THEN IF i + 1 > Len(a)
         THEN [ok |-> FALSE, msg |-> "No output file provided after -o/--output"]
         ELSE parse_options(a, i + 2, Some(a[i + 1]), pretty)
  ELSE IF a[i] \in {"-p", "--pretty"} THEN parse_options(a, i + 1, output, TRUE)
  ELSE [ok |-> FALSE, msg |-> "Unknown option: " \o a[i]]

parse_args(a) ==
  IF Len(a) = 0
    THEN [ok |-> FALSE, msg |-> "No command provided. Use 'help' for usage information."]
  ELSE IF a[1] = "help" THEN [ok |-> TRUE, cmd |-> [kind |-> "Help"]]
  ELSE IF a[1] = "credits" THEN [ok |-> TRUE, cmd |-> [kind |-> "Credits"]]
  ELSE IF a[1] = "parse"
    THEN IF Len(a) < 2 THEN [ok |-> FALSE, msg |-> "No input file provided for parse command."]
         ELSE parse_options(a, 3, NoneValue, FALSE)
  ELSE [ok |-> FALSE,
        msg |-> "Unknown command: " \o a[1] \o ". Use 'help' for usage information."]

(* variant: a file that cannot be read is taken to be empty *)
parse_file_unwrap_or_default(disk, path) ==
  LET content == IF path \in DOMAIN disk /\ disk[path].some THEN disk[path].val ELSE ""
  IN [called |-> TRUE, input |-> content, run |-> parse_run(content)]

(* Proto::parse_file(path): read_to_string fails, and `?` returns IoError   *)
(* with parse never called, or parse is called with the text read.         *)
(* Whether parse was called, the text it was given, and what parse_file    *)
(* holds and returns.                                                      *)
parse_file(disk, path) ==
  IF path \in DOMAIN disk /\ disk[path].some
  THEN [called |-> TRUE, input |-> disk[path].val, run |-> parse_run(disk[path].val)]
  ELSE [called |-> FALSE, input |-> "",
        run |-> [proto |-> NoneValue, result |-> Err("IoError")]]

(* serde_json::Map built by inserting the members in order: a key given     *)
(* again replaces the value and keeps the key's place; the keys stay in    *)
(* insertion order with preserve_order (an IndexMap) and are sorted        *)
(* without it (a BTreeMap).  KeyLess is str's Ord, a < b byte by byte,     *)
(* over the characters an identifier or a path is written with.            *)
MapOf(members, ordered) ==
  LET Ascii == "-./0123456789ABCDEFGHIJKLMNOPQRSTUVWXYZ_abcdefghijklmnopqrstuvwxyz"
      Differ(a, b) ==
        CHOOSE k \in 1..(Len(a) + 1) :
          /\ k = Len(a) + 1 \/ At(a, k) # At(b, k)
          /\ \A j \in 1..(k - 1) : At(a, j) = At(b, j)
      KeyLess(a, b) ==
        IF Differ(a, b) > Len(a) THEN Len(a) < Len(b)
        ELSE IF Differ(a, b) > Len(b) THEN FALSE
        ELSE FindChar(Ascii, 1, At(a, Differ(a, b))) < FindChar(Ascii, 1, At(b, Differ(a, b)))
      n == Len(members)
      first == SelectSeq([k \in 1..n |-> k],
                         LAMBDA k : \A j \in 1..(k - 1) : members[j][1] # members[k][1])
      last(k) == CHOOSE j \in 1..n :
                   /\ members[j][1] = members[k][1]
                   /\ \A i \in (j + 1)..n : members[i][1] # members[k][1]
      kept == [p \in 1..Len(first) |-> <<members[first[p]][1], members[last(first[p])][2]>>]
  IN IF ordered THEN kept
     ELSE [p \in 1..Len(kept) |->
             kept[CHOOSE k \in 1..Len(kept) :
                    Cardinality({j \in 1..Len(kept) : KeyLess(kept[j][1], kept[k][1])}) = p - 1]]

(* the serde_json::Value of a JSON text that was read *)
RECURSIVE ValueOf(_, _)
ValueOf(j, ordered) ==
  CASE j.t = "array" -> JArray([k \in 1..Len(j.v) |-> ValueOf(j.v[k], ordered)])
    [] j.t = "object" ->
         JObject(MapOf([k \in 1..Len(j.v) |-> <<j.v[k][1], ValueOf(j.v[k][2], ordered)>>],
                       ordered))
    [] OTHER -> j

(* main.rs:125-132: with --pretty the text is read into a Value and        *)
(* written again; a text that cannot be read is kept as it is              *)
pretty_result(json, v, ordered) ==
  IF JsonValid(v) THEN Pretty(ValueOf(v, ordered), 0) ELSE json

InitCli ==
  /\ \E c \in CallCases, readable \in BOOLEAN, old \in {NoneValue, Some("old")} :
       /\ src = c.src
       /\ layout = c.layout
       /\ damage = c.damage
       /\ files = [p \in {"in.proto", "out.json"} |->
                  IF p = "out.json" THEN old
                  ELSE IF readable THEN Some(Written(c.src, c.layout, c.damage))
                  ELSE NoneValue]
  /\ args \in {<<>>, <<"help">>, <<"credits">>, <<"check">>, <<"parse">>,
               <<"parse", "in.proto">>, <<"parse", "in.proto", "-p">>,
               <<"parse", "in.proto", "--pretty">>,
               <<"parse", "in.proto", "-o", "out.json">>,
               <<"parse", "in.proto", "-p", "-o", "out.json">>,
               <<"parse", "in.proto", "--output", "out.json", "--pretty">>,
               <<"parse", "in.proto", "-o", "in.proto">>,
               <<"parse", "in.proto", "-o">>, <<"parse", "in.proto", "-v">>,
               <<"parse", "none.proto", "-o", "out.json">>}
  /\ preserve_order \in BOOLEAN
  /\ input = ""
  /\ pc = "main"
  /\ proto = NoneValue
  /\ result = Pending
  /\ calls = <<>>
  /\ stdout = <<>>
  /\ stderr = <<>>
  /\ exit = NoneValue

(* main.rs:113-121, 151-157: the arguments are parsed; an error, help and   *)
(* credits end the process, parse goes on to parse_file                    *)
ParseArgs ==
  /\ pc = "main"
  /\ LET r == parse_args(args)
     IN IF ~r.ok
          THEN /\ stderr' = Append(stderr, "Error: " \o r.msg)
               /\ exit' = Some(1)
               /\ pc' = "exited"
               /\ UNCHANGED stdout
        ELSE IF r.cmd.kind = "Parse"
          THEN /\ pc' = "parse_file"
               /\ UNCHANGED <<stdout, stderr, exit>>
        ELSE /\ stdout' = Append(stdout, IF r.cmd.kind = "Help" THEN HELP ELSE CREDITS)
             /\ exit' = Some(0)
             /\ pc' = "exited"
             /\ UNCHANGED stderr
  /\ UNCHANGED <<src, layout, damage, input, proto, result, calls, args, files, preserve_order>>

(* main.rs:123: the call of Proto::parse_file *)
ParseFile ==
  /\ pc = "parse_file"
  /\ LET r == parse_file(files, parse_args(args).cmd.file)
     IN /\ input' = r.input
        /\ proto' = r.run.proto
        /\ result' = r.run.result
        /\ calls' = IF r.called
                    THEN Append(calls, [input |-> r.input, result |-> r.run.result])
                    ELSE calls
  /\ pc' = "emit"
  /\ UNCHANGED <<src, layout, damage>>
  /\ UNCHANGED <<args, files, preserve_order, stdout, stderr, exit>>

(* fs::write(path, text): the file is created or truncated and the text    *)
(* written; when it fails the file is as it was, or was left empty         *)
WriteFile(path, text) ==
  \/ /\ files' = [p \in DOMAIN files \cup {path} |-> IF p = path THEN Some(text) ELSE files[p]]
     /\ exit' = Some(0)
     /\ UNCHANGED stderr
  \/ /\ \/ files' = files
        \/ files' = [p \in DOMAIN files \cup {path} |-> IF p = path THEN Some("") ELSE files[p]]
     /\ stderr' = Append(stderr, "Error writing to file: ")
     /\ exit' = Some(1)

(* variant: the output file is created before the result is looked at *)
Emit_creates_output_first ==
  /\ pc = "emit"
  /\ files' = IF parse_args(args).cmd.output.some
              THEN [p \in DOMAIN files \cup {parse_args(args).cmd.output.val} |->
                      IF p = parse_args(args).cmd.output.val
                      THEN Some(IF result.kind = "Ok" THEN result.json ELSE "")
                      ELSE files[p]]
              ELSE files
  /\ stdout' = IF result.kind = "Ok" /\ ~parse_args(args).cmd.output.some
               THEN Append(stdout, result.json) ELSE stdout
  /\ stderr' = IF result.kind = "Ok" THEN stderr
               ELSE Append(stderr, "Error parsing file: ")
  /\ exit' = Some(IF result.kind = "Ok" THEN 0 ELSE 1)
  /\ pc' = "exited"
  /\ UNCHANGED <<src, layout, damage, input, proto, result, calls, args, preserve_order>>

(* main.rs:124-148: the result of parse_file is written out, or reported *)
Emit ==
  /\ pc = "emit"
  /\ IF result.kind = "Ok"
     THEN IF parse_args(args).cmd.output.some
          THEN /\ WriteFile(parse_args(args).cmd.output.val,
                            IF parse_args(args).cmd.pretty
                            THEN pretty_result(result.json, ReadJson(result.json), preserve_order)
                            ELSE result.json)
               /\ UNCHANGED stdout
          ELSE /\ stdout' = Append(stdout,
                                   IF parse_args(args).cmd.pretty
                                   THEN pretty_result(result.json, ReadJson(result.json),
                                                      preserve_order)
                                   ELSE result.json)
               /\ exit' = Some(0)
               /\ UNCHANGED <<files, stderr>>
     ELSE /\ stderr' = Append(stderr,
                              "Error parsing file: "
                              \o (CASE result.kind = "Err" /\ result.variant = "IoError" -> "IO error: "
                                    [] result.kind = "Err" /\ result.variant = "ParseError" -> "Parse error: "
                                    [] OTHER -> ""))
          /\ exit' = Some(IF result.kind = "Err" THEN 1 ELSE 101)
          /\ UNCHANGED <<files, stdout>>
  /\ pc' = "exited"
  /\ UNCHANGED <<src, layout, damage, input, proto, result, calls, args, preserve_order>>

NextCli == ParseArgs \/ ParseFile \/ Emit

SpecCli == InitCli /\ [][NextCli]_vars

(***************************************************************************)
(* What a declared document says, read off src without the parser          *)
(***************************************************************************)
Returned == pc = "returned"

Valid == damage.kind = "none"

Parsed == Returned /\ result.kind = "Ok" /\ proto.some

OfKind(elems, kind) == SelectSeq(elems, LAMBDA x : x.kind = kind)

RECURSIVE StripZeros(_)
StripZeros(num) ==
  IF Len(num) > 1 /\ At(num, 1) = "0" THEN StripZeros(Tail(num)) ELSE num

(* a <= b for two digit strings of one length *)
RECURSIVE DigitsLeq(_, _)
DigitsLeq(a, b) ==
  \/ Len(a) = 0
  \/ DigitValue(At(a, 1)) < DigitValue(At(b, 1))
  \/ At(a, 1) = At(b, 1) /\ DigitsLeq(Tail(a), Tail(b))

(* the literal is at most 2147483647 *)
FitsI32(num) ==
  LET d == StripZeros(num)
  IN Len(d) < 10 \/ (Len(d) = 10 /\ DigitsLeq(d, "2147483647"))

(* the number a literal that fits denotes *)
RECURSIVE LiteralValue(_)
LiteralValue(num) ==
  IF Len(num) = 0 THEN 0
  ELSE LiteralValue(SubSeq(num, 1, Len(num) - 1)) * 10 + DigitValue(At(num, Len(num)))

(* the stored number against the literal: the literal's value; for a literal *)
(* that does not fit, 0 unless strict                                       *)
NumberStored(num, n, strict) ==
  IF FitsI32(num) THEN n = LiteralValue(num) ELSE ~strict /\ n = 0

SameLen(a, b) == Len(a) = Len(b)

FieldAsDeclared(f, pf, strict) ==
  pf.name = f.name /\ pf.type_name = f.type /\ NumberStored(f.num, pf.tag, strict)

EnumAsDeclared(e, pe, strict) ==
  /\ pe.name = e.name
  /\ SameLen(pe.values, e.values)
  /\ \A k \in 1..Len(e.values) :
       /\ pe.values[k].name = e.values[k].name
       /\ NumberStored(e.values[k].num, pe.values[k].number, strict)

ServiceAsDeclared(sv, ps) ==
  /\ ps.name = sv.name
  /\ SameLen(ps.methods, sv.methods)
  /\ \A k \in 1..Len(sv.methods) :
       /\ ps.methods[k].name = sv.methods[k].name
       /\ ps.methods[k].input_type = sv.methods[k].input_type
       /\ ps.methods[k].output_type = sv.methods[k].output_type

RECURSIVE MessageAsDeclared(_, _, _)
MessageAsDeclared(m, pm, strict) ==
  LET fs == OfKind(m.elems, "field")
      ms == OfKind(m.elems, "message")
      es == OfKind(m.elems, "enum")
  IN /\ pm.name = m.name
     /\ SameLen(pm.fields, fs)
     /\ \A k \in 1..Len(fs) : FieldAsDeclared(fs[k], pm.fields[k], strict)
     /\ SameLen(pm.nested_messages, ms)
     /\ \A k \in 1..Len(ms) : MessageAsDeclared(ms[k], pm.nested_messages[k], strict)
     /\ SameLen(pm.nested_enums, es)
     /\ \A k \in 1..Len(es) : EnumAsDeclared(es[k], pm.nested_enums[k], strict)

DocAsDeclared(d, p, strict) ==
  LET ms == OfKind(d.defs, "message")
      es == OfKind(d.defs, "enum")
      ss == OfKind(d.defs, "service")
  IN /\ p.imports = d.imports
     /\ SameLen(p.messages, ms)
     /\ \A k \in 1..Len(ms) : MessageAsDeclared(ms[k], p.messages[k], strict)
     /\ SameLen(p.enums, es)
     /\ \A k \in 1..Len(es) : EnumAsDeclared(es[k], p.enums[k], strict)
     /\ SameLen(p.services, ss)
     /\ \A k \in 1..Len(ss) : ServiceAsDeclared(ss[k], p.services[k])

(* depth of nesting of a declared / of a parsed message *)
RECURSIVE MaxOf(_)
MaxOf(ns) == IF Len(ns) = 0 THEN 0
             ELSE IF Head(ns) > MaxOf(Tail(ns)) THEN Head(ns) ELSE MaxOf(Tail(ns))

RECURSIVE DeclaredDepth(_)
DeclaredDepth(m) ==
  LET ms == OfKind(m.elems, "message")
  IN 1 + MaxOf([k \in 1..Len(ms) |-> DeclaredDepth(ms[k])])

RECURSIVE ParsedDepth(_)
ParsedDepth(pm) ==
  1 + MaxOf([k \in 1..Len(pm.nested_messages) |-> ParsedDepth(pm.nested_messages[k])])

(* every field of the message and of the messages nested in it has          *)
(* repeated = TRUE exactly when its declared modifier is "repeated"         *)
RECURSIVE RepeatedAsDeclared(_, _)
RepeatedAsDeclared(m, pm) ==
  LET fs == OfKind(m.elems, "field")
      ms == OfKind(m.elems, "message")
  IN /\ SameLen(pm.fields, fs)
     /\ \A k \in 1..Len(fs) : pm.fields[k].repeated = (fs[k].rule = "repeated")
     /\ SameLen(pm.nested_messages, ms)
     /\ \A k \in 1..Len(ms) : RepeatedAsDeclared(ms[k], pm.nested_messages[k])

(* the number literals a document declares, each with the number stored *)
RECURSIVE MessageNumbers(_, _)
MessageNumbers(m, pm) ==
  LET fs == OfKind(m.elems, "field")
      ms == OfKind(m.elems, "message")
      es == OfKind(m.elems, "enum")
  IN {<<fs[k].num, pm.fields[k].tag>> : k \in 1..Len(fs)}
     \cup UNION {{<<es[k].values[j].num, pm.nested_enums[k].values[j].number>> :
                    j \in 1..Len(es[k].values)} : k \in 1..Len(es)}
     \cup UNION {MessageNumbers(ms[k], pm.nested_messages[k]) : k \in 1..Len(ms)}

DocNumbers(d, p) ==
  LET ms == OfKind(d.defs, "message")
      es == OfKind(d.defs, "enum")
  IN UNION {MessageNumbers(ms[k], p.messages[k]) : k \in 1..Len(ms)}
     \cup UNION {{<<es[k].values[j].num, p.enums[k].values[j].number>> :
                    j \in 1..Len(es[k].values)} : k \in 1..Len(es)}

(* line n of a text (without its line end); "" past the last line *)
RECURSIVE LineOf(_, _)
LineOf(text, n) ==
  LET e == FindChar(text, 1, "\n")
  IN IF n <= 1 THEN SubSeq(text, 1, e - 1)
     ELSE IF e > Len(text) THEN ""
     ELSE LineOf(SubSeq(text, e + 1, Len(text)), n - 1)

(* the keys of a JSON object, in its order *)
Keys(j) == [k \in 1..Len(j.v) |-> j.v[k][1]]

(* the elements of the array that is member k of an object *)
ElementsAt(j, k) == j.v[k][2].v

ProtoKeys == <<"syntax", "package", "imports", "messages", "enums", "services">>

MessageKeys == <<"name", "fields", "nested_messages", "nested_enums">>

FieldKeys == <<"name", "type_name", "tag", "repeated">>

(* a message object, its fields and the messages nested in it at any depth *)
(* have their keys in the declared order                                   *)
RECURSIVE MessageKeysInOrder(_)
MessageKeysInOrder(j) ==
  /\ j.t = "object" /\ Keys(j) = MessageKeys
  /\ j.v[2][2].t = "array" /\ j.v[3][2].t = "array" /\ j.v[4][2].t = "array"
  /\ \A k \in 1..Len(ElementsAt(j, 2)) :
       ElementsAt(j, 2)[k].t = "object" /\ Keys(ElementsAt(j, 2)[k]) = FieldKeys
  /\ \A k \in 1..Len(ElementsAt(j, 3)) : MessageKeysInOrder(ElementsAt(j, 3)[k])

DocKeysInOrder(j) ==
  /\ j.t = "object" /\ Keys(j) = ProtoKeys
  /\ \A k \in 3..6 : j.v[k][2].t = "array"
  /\ \A k \in 1..Len(ElementsAt(j, 4)) : MessageKeysInOrder(ElementsAt(j, 4)[k])

(* a declared message, or document, with its empty statements left out *)
RECURSIVE WithoutEmpty(_)
WithoutEmpty(m) ==
  LET kept == SelectSeq(m.elems, LAMBDA x : x.kind # "empty")
  IN SMessage(m.name, [k \in 1..Len(kept) |->
                         IF kept[k].kind = "message" THEN WithoutEmpty(kept[k]) ELSE kept[k]])

DocWithoutEmpty(d) ==
  SDoc(d.syntax, d.package, d.imports,
       [k \in 1..Len(d.defs) |->
          IF d.defs[k].kind = "message" THEN WithoutEmpty(d.defs[k]) ELSE d.defs[k]])

(***************************************************************************)
(* Claims                                                                  *)
(***************************************************************************)

(* C1: every call of parse ends in exactly one of two ways: Ok with the     *)
(* complete document of the whole input (everything the text declares,     *)
(* fully rendered), or one error and no document; never a panic, never a   *)
(* document of part of the input.                                          *)
C1_AllOrNothing ==
  Returned =>
    \/ /\ result.kind = "Ok"
       /\ DOMAIN result = {"kind", "json"}
       /\ proto.some
       /\ Valid
       /\ DocAsDeclared(src, proto.val, FALSE)
       /\ result.json = to_string_pretty(proto.val)
    \/ /\ result.kind = "Err"
       /\ DOMAIN result = {"kind", "variant"}
       /\ ~proto.some

C1_Witness ==
  /\ Returned /\ result.kind = "Err"
  /\ damage.kind = "drop" /\ Len(OfKind(src.defs, "message")) > 0

C3_Original_AsWritten ==
  Returned /\ Valid => result.kind = "Ok" /\ proto.some /\ DocAsDeclared(src, proto.val, TRUE)

(* C3 amended: ... with name and type as written, and with the tag or      *)
(* number the literal denotes when that fits a signed 32-bit integer       *)
(* (0 when it does not).                                                   *)
C3_StructuralFidelity ==
  Returned /\ Valid => result.kind = "Ok" /\ proto.some /\ DocAsDeclared(src, proto.val, FALSE)

C3_Witness ==
  /\ Parsed /\ src = FullDoc
  /\ Len(proto.val.messages[1].fields) = 2
  /\ Len(proto.val.messages[1].nested_messages[1].nested_enums) = 1
  /\ Len(proto.val.services[1].methods) = 1

(* C4: a text parses to the same JSON, byte for byte, as the text of the    *)
(* same tokens written with single spaces and no comment.                  *)
C4_LayoutInvariance ==
  Returned /\ Valid /\ layout # PlainLayout =>
    /\ result.kind = "Ok"
    /\ result = parse(Written(src, PlainLayout, damage))

C4_Witness ==
  /\ Parsed /\ layout.ws = "\t" /\ layout.cm = "/* c } */" /\ layout.at = 7
  /\ Len(proto.val.messages) > 0

(* C5: a parsed field has repeated = TRUE exactly when its modifier is      *)
(* "repeated"; "optional", "required" or no modifier give FALSE.            *)
C5_RepeatedFlag ==
  Returned /\ Valid =>
    /\ result.kind = "Ok"
    /\ LET ms == OfKind(src.defs, "message")
       IN /\ SameLen(proto.val.messages, ms)
          /\ \A k \in 1..Len(ms) : RepeatedAsDeclared(ms[k], proto.val.messages[k])

C5_Witness ==
  /\ Parsed
  /\ src = OneMessage(<<SField("optional", "string", "a", "1"),
                        SField("repeated", "B", "b", "1")>>)
  /\ ~proto.val.messages[1].fields[1].repeated
  /\ proto.val.messages[1].fields[2].repeated

(* C6: input_type and output_type of every method are the bare type names   *)
(* of its two references, with or without "stream" before either.           *)
C6_StreamStripped ==
  Returned /\ Valid =>
    /\ result.kind = "Ok"
    /\ LET ss == OfKind(src.defs, "service")
       IN /\ SameLen(proto.val.services, ss)
          /\ \A k \in 1..Len(ss) :
               /\ SameLen(proto.val.services[k].methods, ss[k].methods)
               /\ \A j \in 1..Len(ss[k].methods) :
                    /\ proto.val.services[k].methods[j].input_type = ss[k].methods[j].input_type
                    /\ proto.val.services[k].methods[j].output_type = ss[k].methods[j].output_type

C6_Witness ==
  /\ Parsed /\ Len(src.defs) = 1 /\ src.defs[1].kind = "service"
  /\ Len(src.defs[1].methods) = 1
  /\ src.defs[1].methods[1].ins /\ src.defs[1].methods[1].outs
  /\ proto.val.services[1].methods[1].input_type = "Req"
  /\ proto.val.services[1].methods[1].output_type = "Res"

(* C7: a tag or enum number whose literal does not fit a signed 32-bit      *)
(* integer is stored as 0, and the call still succeeds.                    *)
C7_OverflowIsZero ==
  Returned /\ Valid =>
    /\ result.kind = "Ok"
    /\ \A x \in DocNumbers(src, proto.val) : ~FitsI32(x[1]) => x[2] = 0

C7_Witness ==
  /\ Parsed
  /\ \E x \in DocNumbers(src, proto.val) : x[1] = "2147483648" /\ x[2] = 0
  /\ \E x \in DocNumbers(src, proto.val) : x[1] = "2147483647"

(* C8: a tag or enum number whose literal fits a signed 32-bit integer is   *)
(* stored with the value the literal denotes.                              *)
C8_ExactWhenRepresentable ==
  Parsed /\ Valid =>
    \A x \in DocNumbers(src, proto.val) : FitsI32(x[1]) => x[2] = LiteralValue(x[1])

C8_Witness ==
  /\ Parsed
  /\ \E x \in DocNumbers(src, proto.val) : x[1] = "2147483647" /\ x[2] = I32Max
  /\ \E x \in DocNumbers(src, proto.val) : x[1] = "2147483648"

(* C9: without a syntax statement the document's syntax is "proto3"; with   *)
(* one it is the content of the statement's string literal.                *)
C9_SyntaxDefault ==
  Returned /\ Valid =>
    /\ result.kind = "Ok"
    /\ proto.val.syntax = (IF src.syntax.some THEN src.syntax.val ELSE "proto3")

C9_Witness ==
  /\ Parsed /\ ~src.syntax.some /\ src.package.some /\ Len(src.imports) = 2
  /\ proto.val.syntax = "proto3"

(* C10: messages nested three (or more) deep come out as a chain of the    *)
(* same depth through nested_messages, each level with its own fields,     *)
(* nested messages and nested enums and nothing of another level.          *)
C10_NestingDepth ==
  Returned /\ Valid =>
    /\ result.kind = "Ok"
    /\ LET ms == OfKind(src.defs, "message")
       IN /\ SameLen(proto.val.messages, ms)
          /\ \A k \in 1..Len(ms) :
               /\ ParsedDepth(proto.val.messages[k]) = DeclaredDepth(ms[k])
               /\ MessageAsDeclared(ms[k], proto.val.messages[k], FALSE)

C10_Witness ==
  /\ Parsed
  /\ src = SDoc(Proto3, NoneValue, <<>>,
                <<Nested(<<"field_after", "enum_and_field", "field_before">>, 1)>>)
  /\ DeclaredDepth(src.defs[1]) = 3
  /\ proto.val.messages[1].nested_messages[1].nested_messages[1].fields[1].name = "c"
  /\ proto.val.messages[1].nested_messages[1].fields[1].name = "b"
  /\ proto.val.messages[1].fields[1].name = "a"

C12_PackageAbsentIffNoStatement ==
  Returned /\ Valid =>
    /\ result.kind = "Ok"
    /\ proto.val.package = src.package
    /\ LineOf(result.json, 3) =
         (IF src.package.some THEN "  \"package\": \"" \o src.package.val \o "\","
          ELSE "  \"package\": null,")

C12_Witness ==
  /\ Parsed /\ src.package = Some("test.v1.api") /\ ~src.syntax.some
  /\ proto.val.package = Some("test.v1.api")
  /\ LineOf(result.json, 3) = "  \"package\": \"test.v1.api\","

(* C13: the JSON text parse returns, read back, is an object with the keys *)
(* syntax, package, imports, messages, enums, services in that order, all  *)
(* six present (the last four arrays, empty or not); every message at any  *)
(* depth has name, fields, nested_messages, nested_enums in that order and *)
(* every field name, type_name, tag, repeated.                             *)
C13_KeyOrder ==
  Returned /\ result.kind = "Ok" => DocKeysInOrder(ReadJson(result.json))

C13_Witness ==
  /\ Parsed
  /\ src = SDoc(Proto3, NoneValue, <<>>,
                <<Nested(<<"bare", "sibling", "field_before">>, 1)>>)
  /\ Keys(ReadJson(result.json)) = ProtoKeys
  /\ ElementsAt(ReadJson(result.json), 3) = <<>>
  /\ ElementsAt(ReadJson(result.json), 6) = <<>>
  /\ Keys(ElementsAt(ElementsAt(ElementsAt(ElementsAt(
             ReadJson(result.json), 4)[1], 3)[1], 3)[2], 2)[1]) = FieldKeys

(* C14: when parse_file has returned: if the file could not be read, it    *)
(* returned the IoError variant and parse was not called, on no text;      *)
(* otherwise parse was called once, with the text of the file, and         *)
(* parse_file returned what parse returns for that text.                   *)
C14_ParseFileDelegates ==
  pc = "emit" =>
    LET path == parse_args(args).cmd.file
    IN IF path \in DOMAIN files /\ files[path].some
       THEN /\ calls = <<[input |-> files[path].val, result |-> result]>>
            /\ input = files[path].val
            /\ result = parse(files[path].val)
       ELSE /\ result = Err("IoError")
            /\ calls = <<>>
            /\ ~proto.some

C14_Witness ==
  /\ pc = "emit" /\ args = <<"parse", "in.proto">> /\ ~files["in.proto"].some
  /\ result = Err("IoError") /\ calls = <<>>

(* C15: a text with empty ";" statements in its message bodies is accepted *)
(* and parses to the document that the text without those statements      *)
(* parses to: every message has the same fields, nested_messages and       *)
(* nested_enums.                                                           *)
C15_EmptyStatementNoOp ==
  Returned /\ Valid /\ DocWithoutEmpty(src) # src =>
    /\ result.kind = "Ok"
    /\ proto.val.messages = BuildProto(DefaultProto,
                                ProtoParser_parse(Written(DocWithoutEmpty(src), layout, damage)).pairs,
                                1).messages
    /\ result = parse(Written(DocWithoutEmpty(src), layout, damage))

C15_Witness ==
  /\ Parsed
  /\ src = SDoc(Proto3, NoneValue, <<>>, <<Nested(<<"empty", "field_before">>, 1)>>)
  /\ src.defs[1].elems[1] = SEmpty /\ src.defs[1].elems[3] = SEmpty
  /\ proto.val.messages[1].fields = <<>>
  /\ proto.val.messages[1].nested_enums = <<>>
  /\ Len(proto.val.messages[1].nested_messages) = 1
  /\ proto.val.messages[1].nested_messages[1].fields[1].name = "b"

(* C16: a field whose type or name is spelled like a keyword gets          *)
(* repeated from its modifier alone (TRUE exactly for the modifier         *)
(* "repeated", FALSE without a modifier), and its type_name, name and tag  *)
(* are the tokens after the modifier, in that order.                       *)
C16_ModifierByRuleTag ==
  Returned /\ Valid =>
    /\ result.kind = "Ok"
    /\ LET ms == OfKind(src.defs, "message")
       IN /\ SameLen(proto.val.messages, ms)
          /\ \A k \in 1..Len(ms) :
               LET fds == OfKind(ms[k].elems, "field")
               IN /\ SameLen(proto.val.messages[k].fields, fds)
                  /\ \A j \in 1..Len(fds) :
                       (fds[j].type \in FieldRules \cup {"stream", "returns"}
                          \/ fds[j].name \in FieldRules \cup {"syntax"}) =>
                         proto.val.messages[k].fields[j] =
                           [name |-> fds[j].name, type_name |-> fds[j].type,
                            tag |-> LiteralValue(fds[j].num),
                            repeated |-> fds[j].rule = "repeated"]

C16_Witness ==
  /\ Parsed
  /\ src = OneMessage(<<SField("optional", "repeated", "required", "5")>>)
  /\ proto.val.messages[1].fields =
       <<[name |-> "required", type_name |-> "repeated", tag |-> 5, repeated |-> FALSE]>>

(* the places of the written tokens where a top-level statement starts:    *)
(* outside every brace, at the start or after a ";" or a "}"               *)
StatementStarts(toks) ==
  {k \in 1..Len(toks) :
     /\ Cardinality({j \in 1..(k - 1) : toks[j] = "{"})
          = Cardinality({j \in 1..(k - 1) : toks[j] = "}"})
     /\ k = 1 \/ toks[k - 1] \in {";", "}"}}

(* the place of a statement in the order of proto_file; 5 for text that    *)
(* starts no statement                                                     *)
StatementRank(word) ==
  CASE word = "syntax" -> 1
    [] word = "package" -> 2
    [] word = "import" -> 3
    [] word \in {"message", "enum", "service"} -> 4
    [] OTHER -> 5

StatementsInOrder(toks) ==
  /\ \A k \in StatementStarts(toks) : StatementRank(toks[k]) <= 4
  /\ \A a, b \in StatementStarts(toks) :
       a < b => /\ StatementRank(toks[a]) <= StatementRank(toks[b])
                /\ StatementRank(toks[a]) = StatementRank(toks[b])
                     => StatementRank(toks[a]) >= 3

(* C17: a text is accepted only if its top-level statements are at most    *)
(* one syntax, then at most one package, then imports, then definitions up *)
(* to the end; every valid text in that order is accepted; a statement     *)
(* after a definition, a second syntax, or text that is no statement after *)
(* the last one gives the grammar's error and no document.                 *)
C17_TopLevelOrder ==
  Returned =>
    /\ result.kind = "Ok" => StatementsInOrder(Damaged(DocTokens(src), damage))
    /\ Valid => result.kind = "Ok" /\ StatementsInOrder(DocTokens(src))
    /\ damage.kind \in {"late", "trailing"} =>
         /\ ~StatementsInOrder(Damaged(DocTokens(src), damage))
         /\ result = Err("ParseError")
         /\ ~proto.some

C17_Witness ==
  /\ Returned
  /\ src = FullDoc
  /\ damage = [kind |-> "late", stmt |-> "import"]
  /\ result = Err("ParseError")
  /\ ~proto.some

(* the string literals of a document as they are written, quotes included *)
WrittenLiterals(d) == SelectSeq(DocTokens(d), LAMBDA tok : At(tok, 1) = "\"")

(* the values the document stores for them: its syntax, if a syntax        *)
(* statement is written, then its imports                                  *)
StoredLiterals(d, p) == (IF d.syntax.some THEN <<p.syntax>> ELSE <<>>) \o p.imports

(* C18: the value stored for syntax and for each import is the written     *)
(* literal without its first and its last character, the two quotes: two   *)
(* characters shorter, every content character kept, no quote at an end.   *)
C18_QuotesStrippedOnce ==
  Returned /\ Valid =>
    /\ result.kind = "Ok"
    /\ LET lits == WrittenLiterals(src)
           vals == StoredLiterals(src, proto.val)
       IN /\ SameLen(vals, lits)
          /\ \A k \in 1..Len(lits) :
               /\ Len(vals[k]) = Len(lits[k]) - 2
               /\ vals[k] = SubSeq(lits[k], 2, Len(lits[k]) - 1)
               /\ At(vals[k], 1) # "\"" /\ At(vals[k], Len(vals[k])) # "\""
               /\ lits[k] = "\"" \o vals[k] \o "\""

C18_Witness ==
  /\ Parsed
  /\ WrittenLiterals(src) = <<"\"\"", "\"a/b-c_d.proto\"", "\"other.proto\"">>
  /\ proto.val.syntax = ""
  /\ proto.val.imports = <<"a/b-c_d.proto", "other.proto">>

(* the parse command has ended with status 0 *)
Emitted == pc = "exited" /\ exit = Some(0) /\ result.kind = "Ok"

(* the text the parse command has emitted: the output file's, or the line  *)
(* on standard output                                                      *)
EmittedText ==
  IF parse_args(args).cmd.output.some THEN files[parse_args(args).cmd.output.val].val
  ELSE stdout[1]

(* C19 as stated: the document emitted with --pretty has the same keys in  *)
(* the same order and the same values as the one emitted without it, which *)
(* is the text returned by parse_file.                                     *)
C19_Original_PresentationOnly ==
  Emitted =>
    /\ ~parse_args(args).cmd.pretty => EmittedText = result.json
    /\ parse_args(args).cmd.pretty => ReadJson(EmittedText) = ReadJson(result.json)

(* the arguments are a well-formed parse command *)
ParseCommand == parse_args(args).ok /\ parse_args(args).cmd.kind = "Parse"

(* C20: when parse_file has failed, reading or parsing, the parse command  *)
(* ends with nothing on standard output, one "Error parsing file: " line   *)
(* on standard error and status 1; and no step of a parse command changes  *)
(* a file or standard output unless parse_file has returned Ok.            *)
C20_FailureWritesNothing ==
  /\ [](pc = "exited" /\ result.kind = "Err" =>
          /\ stdout = <<>>
          /\ Len(stderr) = 1
          /\ SubSeq(stderr[1], 1, 20) = "Error parsing file: "
          /\ exit = Some(1))
  /\ [][ParseCommand /\ (files' # files \/ stdout' # stdout) =>
          pc = "emit" /\ result.kind = "Ok" /\ result' = result]_vars

C20_Witness ==
  /\ pc = "exited"
  /\ args = <<"parse", "in.proto", "-o", "out.json">>
  /\ result = Err("ParseError")
  /\ files["out.json"] = Some("old")
  /\ stdout = <<>>
  /\ stderr = <<"Error parsing file: Parse error: ">>
  /\ exit = Some(1)
====
